---- MODULE Spec2Model ----
(***************************************************************************)
(* Model of the Matrix MetaOrchestrator control plane:                     *)
(*   - JsonOrchestratorStateStore (load / save / sanitizers),              *)
(*   - MetaOrchestrator (initialize, reconcile, runLoop, handleSync,       *)
(*     handleLobbyMessage, spawnTaskForLobbyMessage, markFailedEvent),     *)
(*   - the process entry points (main of the orchestrator and of init-dev).*)
(* The chat homeserver and the spark CLI are the environment: every call   *)
(* to them either returns or throws, and the process may crash between any *)
(* two steps and be started again.                                         *)
(***************************************************************************)
EXTENDS Integers, Sequences, FiniteSets, TLC

VARIABLES
  config,          \* OrchestratorConfig of the running deployment
  pc,              \* position of the orchestrator process
  state,           \* MetaOrchestrator.state (in-memory OrchestratorStateData)
  disk,            \* the file at JsonOrchestratorStateStore.filePath
  temp,            \* the temp file of the save in progress
  sv,              \* locals of the save in progress (payload, position)
  sinceToken,      \* MetaOrchestrator.sinceToken
  inFlightEvents,  \* MetaOrchestrator.inFlightEvents
  rl,              \* locals of reconcile (project index, projectState, ...)
  hs,              \* locals of runLoop / handleSync / handleLobbyMessage
  pending,         \* fire-and-forget chat requests of markFailedEvent
  world,           \* homeserver and spark side: rooms, timeline, notices
  hist,            \* observations of the run used to state the properties
  budget,          \* faults, crashes, runs, clock ticks used so far
  rq,              \* locals of MatrixClient.request (attempt, responses, sleeps)
  nm,              \* arguments and results of slugify / buildTaskIdentifiers
  isRunning,       \* the flag of main that runLoop reads through shouldContinue
  br,              \* the AgentBridge of one task room: position, run, room timeline
  be,              \* one call of buildBridgeEnv: process environment, arguments, result
  tx,              \* MatrixClient.txnCounter, Date.now() and the sendMessage calls
  tg               \* the Telegram bot's state of one chat and its startOrReplaceRun calls

vars == <<config, pc, state, disk, temp, sv, sinceToken, inFlightEvents,
          rl, hs, pending, world, hist, budget, rq, nm, isRunning, br, be, tx, tg>>

(***************************************************************************)
(* Bounds of the model.                                                    *)
(***************************************************************************)
MaxFaults == 1      \* calls that throw
MaxRuns == 2        \* process starts
MaxPosts == 2       \* events delivered by the homeserver
MaxClock == 1       \* seconds the wall clock advances
MaxSaves == 2       \* saves in the save-protocol specification

None == "<undefined>"

NoToken == -1       \* sinceToken undefined; tokens are timeline positions

Min(a, b) == IF a < b THEN a ELSE b

Last(s) == s[Len(s)]

Count(f, k) == IF k \in DOMAIN f THEN f[k] ELSE 0

Inc(f, k) == (k :> (Count(f, k) + 1)) @@ f

Put(f, k, v) == (k :> v) @@ f

Range(s) == {s[i] : i \in DOMAIN s}

(***************************************************************************)
(* Identifiers.                                                            *)
(***************************************************************************)
\* Room IDs returned by the homeserver's createRoom: fresh on every call.
RoomId(n) == "!r" \o ToString(n)

\* Date.toISOString / formatTimestamp of the wall clock.
toISOString(t) == "2026-02-08T19:00:0" \o ToString(t) \o "Z"

\* A string as the sequence of its characters, and back.
RECURSIVE Join(_)
Join(chars) == IF chars = <<>> THEN "" ELSE Head(chars) \o Join(Tail(chars))

DigitChars == <<"0", "1", "2", "3", "4", "5", "6", "7", "8", "9">>

HexChars == Range(DigitChars) \cup {"a", "b", "c", "d", "e", "f"}

LowerChars ==
  { "a", "b", "c", "d", "e", "f", "g", "h", "i", "j", "k", "l", "m", "n", "o", "p", "q",
    "r", "s", "t", "u", "v", "w", "x", "y", "z" }

\* Number.toString of a natural number.
RECURSIVE numberToString(_)
numberToString(n) ==
  IF n < 10 THEN <<DigitChars[n + 1]>>
  ELSE numberToString(n \div 10) \o <<DigitChars[(n % 10) + 1]>>

padStart(chars, width, fill) ==
  IF Len(chars) >= width THEN chars
  ELSE [i \in 1..(width - Len(chars)) |-> fill] \o chars

\* this.now(): the wall clock, t seconds after the start of the model.
Now(t) == [year |-> 2026, month |-> 2, day |-> 8, hour |-> 19, minute |-> 0, second |-> t]

formatTimestamp(value) ==
  padStart(numberToString(value.year), 4, "0")
    \o padStart(numberToString(value.month), 2, "0")
    \o padStart(numberToString(value.day), 2, "0")
    \o padStart(numberToString(value.hour), 2, "0")
    \o padStart(numberToString(value.minute), 2, "0")
    \o padStart(numberToString(value.second), 2, "0")

\* First 6 hex digits of SHA-1: a 24-bit value, so distinct inputs can agree.
shortHash(projectKey, eventId) ==
  CASE eventId = "$e1" -> <<"a", "1", "b", "2", "c", "3">>
    [] eventId = "$e2" -> <<"d", "4", "e", "5", "f", "6">>
    [] eventId = "$e3" -> <<"a", "1", "b", "2", "c", "3">>
    [] OTHER -> <<"0", "f", "0", "f", "0", "f">>

eventKey(roomId, eventId) == roomId \o ":" \o eventId

\* String.toLowerCase on the characters of the model.
toLowerCase(chars) ==
  [i \in 1..Len(chars) |->
     CASE chars[i] = "Z" -> "z"
       [] chars[i] = "R" -> "r"
       [] OTHER -> chars[i]]

isAlnum(c) == c \in LowerChars \cup Range(DigitChars)

\* replace(/[^a-z0-9]+/g, "-")
RECURSIVE replaceRuns(_)
replaceRuns(chars) ==
  IF chars = <<>> THEN <<>>
  ELSE IF isAlnum(Head(chars)) THEN <<Head(chars)>> \o replaceRuns(Tail(chars))
  ELSE IF Len(chars) > 1 /\ ~isAlnum(chars[2]) THEN replaceRuns(Tail(chars))
  ELSE <<"-">> \o replaceRuns(Tail(chars))

\* replace(/-+$/g, "")
RECURSIVE stripTrailing(_)
stripTrailing(chars) ==
  IF chars # <<>> /\ chars[Len(chars)] = "-"
  THEN stripTrailing(SubSeq(chars, 1, Len(chars) - 1)) ELSE chars

RECURSIVE stripLeading(_)
stripLeading(chars) ==
  IF chars # <<>> /\ Head(chars) = "-" THEN stripLeading(Tail(chars)) ELSE chars

\* replace(/-{2,}/g, "-")
RECURSIVE collapseDashes(_)
collapseDashes(chars) ==
  IF Len(chars) < 2 THEN chars
  ELSE IF chars[1] = "-" /\ chars[2] = "-" THEN collapseDashes(Tail(chars))
  ELSE <<Head(chars)>> \o collapseDashes(Tail(chars))

\* Variant: the cut slug keeps its trailing dashes.
slugifyKeepsTrailingDash(raw, fallback, maxLen) ==
  LET cleaned == collapseDashes(stripTrailing(stripLeading(replaceRuns(toLowerCase(raw)))))
  IN IF cleaned = <<>> THEN fallback
     ELSE SubSeq(cleaned, 1, Min(maxLen, Len(cleaned)))

slugify(raw, fallback, maxLen) ==
  LET cleaned == collapseDashes(stripTrailing(stripLeading(replaceRuns(toLowerCase(raw)))))
      cut == stripTrailing(SubSeq(cleaned, 1, Min(maxLen, Len(cleaned))))
  IN IF cleaned = <<>> THEN fallback
     ELSE IF Len(cleaned) <= maxLen THEN cleaned
     ELSE IF cut # <<>> THEN cut ELSE fallback

\* The default fallback of slugify.
Fallback == <<"t", "a", "s", "k">>

Chars(word) ==
  CASE word = "task-" -> <<"t", "a", "s", "k", "-">>
    [] word = "-" -> <<"-">>

\* Variant: the slug is cut at the default 48 of slugify.
taskIdentifiersLongSlug(projectKey, prompt, lobbyEventId, now) ==
  LET baseSparkName == Chars("task-") \o formatTimestamp(now) \o Chars("-")
                         \o slugify(prompt, Fallback, 48)
                         \o Chars("-") \o shortHash(projectKey, lobbyEventId)
  IN [ taskId |-> projectKey \o "-" \o Join(formatTimestamp(now)) \o "-"
                    \o Join(shortHash(projectKey, lobbyEventId)),
       sparkName |-> SubSeq(baseSparkName, 1, Min(63, Len(baseSparkName))),
       roomLabel |-> slugify(prompt, Fallback, 48) \o Chars("-")
                       \o shortHash(projectKey, lobbyEventId) ]

\* buildTaskIdentifiers, with sparkName and roomLabel as character sequences.
taskIdentifiers(projectKey, prompt, lobbyEventId, now) ==
  LET timestamp == formatTimestamp(now)
      hash == shortHash(projectKey, lobbyEventId)
      slug == slugify(prompt, Fallback, 24)
      baseSparkName == Chars("task-") \o timestamp \o Chars("-") \o slug \o Chars("-") \o hash
  IN [ taskId |-> projectKey \o "-" \o Join(timestamp) \o "-" \o Join(hash),
       sparkName |-> IF Len(baseSparkName) <= 63 THEN baseSparkName
                     ELSE SubSeq(baseSparkName, 1, 63),
       roomLabel |-> slug \o Chars("-") \o hash ]

buildTaskIdentifiers(projectKey, prompt, lobbyEventId, now) ==
  [ taskId |-> taskIdentifiers(projectKey, prompt, lobbyEventId, now).taskId,
    sparkName |-> Join(taskIdentifiers(projectKey, prompt, lobbyEventId, now).sparkName),
    roomLabel |-> Join(taskIdentifiers(projectKey, prompt, lobbyEventId, now).roomLabel) ]

(***************************************************************************)
(* Configuration.                                                          *)
(***************************************************************************)
botUserId == "@codebot"

ProjectKeys == <<"rc", "web">>

\* OrchestratorProjectConfig.spark as recorded in ProjectStateRecord.spark.
sparkShape(key) ==
  [ project |-> key, base |-> "spark-base-coding", mainSpark |-> key \o "-main",
    workVolume |-> "work-" \o key, workMountPath |-> "/work" ]

(***************************************************************************)
(* JsonOrchestratorStateStore.                                             *)
(***************************************************************************)
CURRENT_VERSION == 1

createDefaultState ==
  [ version |-> CURRENT_VERSION,
    workspace |-> [name |-> None, spaceId |-> None, topic |-> None, updatedAt |-> None],
    projects |-> <<>>,
    tasks |-> <<>>,
    eventIndex |-> <<>> ]

\* JSON.stringify leaves out the members whose value is undefined.
dropUndefined(r, optional) ==
  [k \in {f \in DOMAIN r : f \notin optional \/ r[f] # None} |-> r[k]]

WorkspaceOptional == {"name", "spaceId", "topic", "updatedAt"}
ProjectOptional == {"projectSpaceId", "lobbyRoomId", "lobbyRoomName"}
TaskOptional == {"taskRoomId", "taskRoomName", "sparkProject", "sparkName", "statusReason"}
BridgeOptional == {"pid", "processId", "rawOutput"}

\* Variant: the bridge member is written as an empty object.
stringifyTaskWithoutBridge(t) ==
  dropUndefined([t EXCEPT !.bridge = <<>>], TaskOptional)

stringifyTask(t) ==
  dropUndefined([t EXCEPT !.bridge = dropUndefined(t.bridge, BridgeOptional)], TaskOptional)

\* JSON.stringify(state, null, 2): the text of the file as a sequence of
\* tokens, the opening brace, one token per top-level member, the closing
\* brace.  A prefix of it is what a torn write leaves behind.
stringify(s) ==
  << <<"{", 0>>,
     <<"version", s.version>>,
     <<"workspace", dropUndefined(s.workspace, WorkspaceOptional)>>,
     <<"projects", [k \in DOMAIN s.projects |-> dropUndefined(s.projects[k], ProjectOptional)]>>,
     <<"tasks", [k \in DOMAIN s.tasks |-> stringifyTask(s.tasks[k])]>>,
     <<"eventIndex", s.eventIndex>>,
     <<"}", 0>> >>

PayloadLen == Len(stringify(createDefaultState))

\* JSON.parse succeeds on a complete document; the object test of load
\* (parsed && typeof parsed === "object") lets objects and arrays through.
parses(text) ==
  /\ Len(text) >= 2
  /\ \/ text[1][1] = "{" /\ text[Len(text)][1] = "}"
     \/ text[1][1] = "[" /\ text[Len(text)][1] = "]"

\* JSON.parse of a document that parses: the named members of the object
\* (an array has none of the names load reads).
parse(text) ==
  LET named == {i \in 2..(Len(text) - 1) : text[1][1] = "{"}
  IN [k \in {text[i][1] : i \in named} |->
        text[CHOOSE i \in named : text[i][1] = k][2]]

\* JSON values in the model: a scalar is a string, and a scalar that is not
\* a JSON string is written with a leading "#"; where the program expects an
\* object, a value that is not one is NotAnObject.
JsonNumbers == {"#0", "#123", "#777"}

JsonNonStrings == JsonNumbers \cup {"#null", "#true"}

NotAnObject == [nonObject |-> TRUE]

isObject(v) == "nonObject" \notin DOMAIN v

member(o, k) == IF k \in DOMAIN o THEN o[k] ELSE None

objectMember(o, k) == IF k \in DOMAIN o THEN o[k] ELSE NotAnObject

asString(v) == IF v = "" \/ v \in JsonNonStrings THEN None ELSE v

asNumber(v) == IF v \in JsonNumbers THEN v ELSE None

\* Variant: any string is taken as a status.
asTaskStatusAny(v) == asString(v)

asTaskStatus(v) ==
  IF v \in {"waiting", "active", "needs_input", "completed", "error"} THEN v ELSE None

sanitizeWorkspace(o) ==
  IF ~isObject(o)
  THEN [name |-> None, spaceId |-> None, topic |-> None, updatedAt |-> None]
  ELSE [ name |-> asString(member(o, "name")), spaceId |-> asString(member(o, "spaceId")),
         topic |-> asString(member(o, "topic")),
         updatedAt |-> asString(member(o, "updatedAt")) ]

projectKept(e) ==
  /\ isObject(e)
  /\ asString(member(e, "displayName")) # None
  /\ isObject(objectMember(e, "spark"))
  /\ \A f \in {"project", "base", "mainSpark", "workVolume", "workMountPath"} :
       asString(member(e.spark, f)) # None

sanitizeProjects(o) ==
  IF ~isObject(o) THEN <<>>
  ELSE [ k \in {j \in DOMAIN o : projectKept(o[j])} |->
           [ key |-> k,
             displayName |-> o[k].displayName,
             projectSpaceId |-> asString(member(o[k], "projectSpaceId")),
             lobbyRoomId |-> asString(member(o[k], "lobbyRoomId")),
             lobbyRoomName |-> asString(member(o[k], "lobbyRoomName")),
             spark |-> [f \in {"project", "base", "mainSpark", "workVolume", "workMountPath"}
                          |-> o[k].spark[f]],
             updatedAt |-> IF asString(member(o[k], "updatedAt")) # None
                           THEN o[k].updatedAt ELSE "t-load" ] ]

\* Message bodies are sequences of characters; the empty one is falsy.
taskKept(e) ==
  /\ isObject(e)
  /\ \A f \in {"projectKey", "lobbyRoomId", "lobbyEventId", "createdAt", "updatedAt"} :
       asString(member(e, f)) # None
  /\ "initialPrompt" \in DOMAIN e
  /\ e.initialPrompt # <<>>
  /\ asTaskStatus(member(e, "status")) # None

sanitizeBridge(b) ==
  IF ~isObject(b) THEN [pid |-> None, processId |-> None, rawOutput |-> None]
  ELSE [ pid |-> asNumber(member(b, "pid")), processId |-> asString(member(b, "processId")),
         rawOutput |-> asString(member(b, "rawOutput")) ]

sanitizeTasks(o) ==
  IF ~isObject(o) THEN <<>>
  ELSE [ k \in {j \in DOMAIN o : taskKept(o[j])} |->
           [ id |-> IF asString(member(o[k], "id")) # None THEN o[k].id ELSE k,
             projectKey |-> o[k].projectKey,
             lobbyRoomId |-> o[k].lobbyRoomId,
             lobbyEventId |-> o[k].lobbyEventId,
             taskRoomId |-> asString(member(o[k], "taskRoomId")),
             taskRoomName |-> asString(member(o[k], "taskRoomName")),
             sparkProject |-> asString(member(o[k], "sparkProject")),
             sparkName |-> asString(member(o[k], "sparkName")),
             status |-> o[k].status,
             statusReason |-> asString(member(o[k], "statusReason")),
             bridge |-> sanitizeBridge(objectMember(o[k], "bridge")),
             initialPrompt |-> o[k].initialPrompt,
             createdAt |-> o[k].createdAt,
             updatedAt |-> o[k].updatedAt ] ]

\* Variant: the kept values are rewritten.
sanitizeEventIndexRewrites(o) ==
  IF ~isObject(o) THEN <<>>
  ELSE [k \in {j \in DOMAIN o : asString(o[j]) # None} |-> o[k] \o "'"]

sanitizeEventIndex(o) ==
  IF ~isObject(o) THEN <<>>
  ELSE [k \in {j \in DOMAIN o : asString(o[j]) # None} |-> o[k]]

\* load, lines 77-83: the state built from the parsed object.
sanitize(parsed) ==
  [ version |-> CURRENT_VERSION,
    workspace |-> sanitizeWorkspace(objectMember(parsed, "workspace")),
    projects |-> sanitizeProjects(objectMember(parsed, "projects")),
    tasks |-> sanitizeTasks(objectMember(parsed, "tasks")),
    eventIndex |-> sanitizeEventIndex(objectMember(parsed, "eventIndex")) ]

\* load(): absent file or a text that does not parse gives the default state.
load(file) ==
  IF ~file.exists \/ ~parses(file.text) THEN createDefaultState
  ELSE sanitize(parse(file.text))

NoFile == [exists |-> FALSE, text |-> <<>>]

(***************************************************************************)
(* Timeline events the homeserver can deliver (MatrixSyncEvent).           *)
(***************************************************************************)
Str(text) == [kind |-> "string", text |-> text]

Event(id, type, sender, body) == [event_id |-> id, type |-> type, sender |-> sender, body |-> body]

Events ==
  { Event("$e1", "m.room.message", "@user", Str(<<" ", "f", "i", "x", " ">>)),
    Event("$e3", "m.room.message", "@user", Str(<<"a", "d", "d">>)),
    Event("$e2", "m.room.message", "@user", Str(<<"/", "h", "e", "l", "p">>)),
    Event("$e4", "m.room.message", "@user", Str(<<" ", "/", "x">>)),
    Event("$e5", "m.room.message", botUserId, Str(<<"o", "k">>)),
    Event("$e6", "m.room.member", "@user", Str(<<"j", "o", "i", "n">>)),
    Event("$e7", "m.room.message", "@user", Str(<<" ", " ">>)),
    Event("$e8", "m.room.message", "@user", [kind |-> "absent", text |-> <<>>]),
    Event(None, "m.room.message", "@user", Str(<<"h", "i">>)),
    Event("$e9", "m.room.message", None, Str(<<"h", "i">>)) }

IsSpace(c) == c \in {" ", "\t", "\n"}

RECURSIVE trimStart(_)
trimStart(t) == IF t # <<>> /\ IsSpace(Head(t)) THEN trimStart(Tail(t)) ELSE t

RECURSIVE trimEnd(_)
trimEnd(t) == IF t # <<>> /\ IsSpace(Last(t)) THEN trimEnd(SubSeq(t, 1, Len(t) - 1)) ELSE t

\* String.prototype.trim
trim(t) == trimEnd(trimStart(t))

NoMessage == [roomId |-> None, eventId |-> None, sender |-> None, body |-> <<>>]

\* Variant: slash commands are not filtered out.
toLobbyMessageWithCommands(roomId, event) ==
  IF event.type # "m.room.message" THEN NoMessage
  ELSE IF event.event_id = None \/ event.sender = None \/ event.sender = botUserId THEN NoMessage
  ELSE IF event.body.kind # "string" THEN NoMessage
  ELSE IF trim(event.body.text) = <<>> THEN NoMessage
  ELSE [ roomId |-> roomId, eventId |-> event.event_id, sender |-> event.sender,
         body |-> trim(event.body.text) ]

\* toLobbyMessage: null (NoMessage) unless the event is a lobby work request.
toLobbyMessage(roomId, event) ==
  IF event.type # "m.room.message" THEN NoMessage
  ELSE IF event.event_id = None \/ event.sender = None \/ event.sender = botUserId THEN NoMessage
  ELSE IF event.body.kind # "string" THEN NoMessage
  ELSE IF trim(event.body.text) = <<>> THEN NoMessage
  ELSE IF Head(trim(event.body.text)) = "/" THEN NoMessage
  ELSE [ roomId |-> roomId, eventId |-> event.event_id, sender |-> event.sender,
         body |-> trim(event.body.text) ]

(***************************************************************************)
(* Initial state: nothing deployed yet, no state file, process not started.*)
(***************************************************************************)
NoProjectState == [key |-> None]

RlInit ==
  [ second |-> FALSE, pi |-> 1, projectState |-> NoProjectState,
    existing |-> FALSE, workspaceSpaceId |-> None ]

HsInit == [queue |-> <<>>, since |-> NoToken, next_batch |-> NoToken, taskId |-> None, sparkName |-> None]

RecInit ==
  [ startRooms |-> 0, startFull |-> FALSE, startEmpty |-> FALSE, startIds |-> <<>>,
    joinFailed |-> FALSE, invitesFailed |-> FALSE, calls |-> <<>> ]

\* created, replaced and ops are kept for the whole history; the other
\* observations are those of the running process.
HistInit ==
  [ rec |-> RecInit, created |-> <<>>, replaced |-> <<>>, ops |-> <<>>,
    spawned |-> <<>>, failed |-> {}, settled |-> {}, dropped |-> {}, ignored |-> {},
    stored |-> createDefaultState, lastSave |-> "none",
    saveThrew |-> FALSE, startToken |-> NoToken,
    signalAt |-> None ]

NoIds == [taskId |-> None, sparkName |-> <<>>, roomLabel |-> <<>>]

NmInit ==
  [ raw |-> <<>>, maxLen |-> 1, projectKey |-> None, eventId |-> None, hasNow |-> FALSE,
    now |-> Now(0), slug |-> <<>>, first |-> NoIds, second |-> NoIds ]

\* The bridge before main runs: no run, empty task room.
BrInit ==
  [ pc |-> "down", from |-> "initial", timeline |-> <<>>, sinceToken |-> 0,
    next_batch |-> 0, queue |-> <<>>, activeRun |-> 0, runs |-> 0,
    run |-> [id |-> 0, state |-> "none", aborted |-> FALSE],
    ended |-> <<>>, handled |-> <<>>, lastNotice |-> "" ]

\* No bridge environment built yet.
BeInit ==
  [ pc |-> "start", processEnv |-> <<>>, event |-> Event(None, None, None, Str(<<>>)),
    message |-> NoMessage, nextRoom |-> 0, taskRoomId |-> None, sparkName |-> None,
    env |-> <<>> ]

MaxPrompts == 3     \* prompts sent to the chat

\* state.activeRun is undefined.
NoRun == 0

\* A chat with no active run; no prompt has arrived.
TgInit ==
  [ activeRun |-> NoRun, runs |-> [r \in 1..MaxPrompts |-> "none"], aborted |-> {},
    call |-> [p \in 1..MaxPrompts |-> [pc |-> "new", previous |-> NoRun]] ]

\* A client that has sent nothing.
TxInit == [txnCounter |-> 0, now |-> 0, calls |-> <<>>]

RqInit ==
  [ endpoint |-> None, attempt |-> 0, received |-> <<>>, sleeps |-> <<>>,
    outcome |-> "none", result |-> None ]

SvInit == [payload |-> <<>>, written |-> 0, prev |-> NoFile, saves |-> 0, open |-> FALSE]

InitWith(configs) ==
  /\ config \in configs
  /\ pc = "down"
  /\ state = createDefaultState
  /\ disk = NoFile
  /\ temp = NoFile
  /\ sv = SvInit
  /\ sinceToken = NoToken
  /\ inFlightEvents = {}
  /\ rl = RlInit
  /\ hs = HsInit
  /\ pending = {}
  /\ world = [ nextRoom |-> 1, clock |-> 0, lobbies |-> {}, timeline |-> <<>>,
               notices |-> {}, left |-> {} ]
  /\ hist = HistInit
  /\ budget = [faults |-> 0, runs |-> 0, posts |-> 0]
  /\ rq = RqInit
  /\ nm = NmInit
  /\ isRunning = TRUE
  /\ br = BrInit
  /\ be = BeInit
  /\ tx = TxInit
  /\ tg = TgInit

\* The orchestrator service of one project, started by its main().
Init ==
  InitWith([ projects : {<<ProjectKeys[1]>>}, keepErrorRooms : BOOLEAN,
             entry : {"orchestrator"} ])

\* One or two projects, brought up by init-dev or by the orchestrator.
InitReconcile ==
  InitWith([ projects : {<<ProjectKeys[1]>>, ProjectKeys}, keepErrorRooms : {FALSE},
             entry : {"orchestrator", "init-dev"} ])

(***************************************************************************)
(* Environment outcomes.                                                   *)
(***************************************************************************)
CanFail == budget.faults < MaxFaults

Fault == budget' = [budget EXCEPT !.faults = @ + 1]

Logged(op, arg) == [hist EXCEPT !.rec.calls = Append(@, <<op, arg>>)]

\* The state file is written by save(): see the save-protocol actions below.
\* In the orchestrator specification a save is one step that either replaces
\* the file by the complete new text or throws and leaves the file as it was.
saved(s) == [exists |-> TRUE, text |-> stringify(s)]

Ids(s) ==
  [ workspace |-> s.workspace.spaceId,
    projects |-> [k \in DOMAIN s.projects |->
                   <<s.projects[k].projectSpaceId, s.projects[k].lobbyRoomId>>] ]

Full(s) ==
  /\ s.workspace.spaceId # None
  /\ \A i \in DOMAIN config.projects :
       /\ config.projects[i] \in DOMAIN s.projects
       /\ s.projects[config.projects[i]].projectSpaceId # None
       /\ s.projects[config.projects[i]].lobbyRoomId # None

Empty(s) == s.workspace.spaceId = None /\ DOMAIN s.projects = {}

(***************************************************************************)
(* Process start: main() constructs the MetaOrchestrator, whose constructor*)
(* loads the state file, and calls initialize().                           *)
(***************************************************************************)
Boot ==
  /\ pc = "down"
  /\ budget.runs < MaxRuns
  /\ rl' = RlInit
  /\ state' = load(disk)
  /\ sinceToken' = NoToken
  /\ inFlightEvents' = {}
  /\ hs' = HsInit
  /\ pending' = {}
  /\ pc' = "verify"
  /\ isRunning' = TRUE
  /\ budget' = [budget EXCEPT !.runs = @ + 1]
  /\ UNCHANGED <<tg, tx, be, br, nm, rq, config, disk, temp, sv, world, hist>>

\* The process is gone: its memory is lost, the file and the outside world stay.
ProcessEnds ==
  /\ pc' = "down"
  /\ hist' = [HistInit EXCEPT !.created = hist.created, !.replaced = hist.replaced,
                              !.ops = hist.ops]
  /\ state' = createDefaultState
  /\ sinceToken' = NoToken
  /\ inFlightEvents' = {}
  /\ rl' = RlInit
  /\ hs' = HsInit
  /\ pending' = {}

\* A call that throws during initialize (or init-dev) rejects main(): the
\* process logs the fatal startup failure and ends.
Abort(op, arg) ==
  /\ CanFail
  /\ Fault
  /\ ProcessEnds

\* initialize: verifyConnection, verifyAvailability, then reconcile starts.
Verify ==
  /\ pc = "verify"
  /\ \/ /\ pc' = "reconcile"
        /\ UNCHANGED <<tg, tx, be, br, isRunning, nm, rq, state, sinceToken, inFlightEvents, rl, hs, pending, hist, budget>>
     \/ Abort("verifyConnection", None)
  /\ UNCHANGED <<tg, tx, be, br, isRunning, nm, rq, config, disk, temp, sv, world>>

(***************************************************************************)
(* reconcileWorkspaceAndProjects.                                          *)
(***************************************************************************)
CurrentKey == config.projects[rl.pi]

Slot(kind, key) == kind \o ":" \o key

\* projectState is state.projects[key] itself when the record existed, a new
\* object otherwise: an assignment reaches the state only in the first case.
AssignProject(field, value) ==
  /\ rl' = [rl EXCEPT !.projectState[field] = value]
  /\ state' = IF rl.existing THEN [state EXCEPT !.projects[CurrentKey][field] = value]
               ELSE state

\* Variant: the stored workspace space is never reused.
ReconcileBeginRecreates ==
  /\ pc = "reconcile"
  /\ hist' = [hist EXCEPT !.rec =
       [ RecInit EXCEPT !.startRooms = world.nextRoom, !.startFull = Full(state),
                        !.startEmpty = Empty(state), !.startIds = Ids(state) ]]
  /\ rl' = [rl EXCEPT !.pi = 1, !.projectState = NoProjectState, !.existing = FALSE,
                      !.workspaceSpaceId = None]
  /\ pc' = "ws_create"
  /\ UNCHANGED <<tg, tx, be, br, isRunning, nm, rq, config, state, disk, temp, sv, sinceToken, inFlightEvents, hs,
                 pending, world, budget>>

ReconcileBegin ==
  /\ pc = "reconcile"
  /\ hist' = [hist EXCEPT !.rec =
       [ RecInit EXCEPT !.startRooms = world.nextRoom, !.startFull = Full(state),
                        !.startEmpty = Empty(state), !.startIds = Ids(state) ]]
  /\ rl' = [rl EXCEPT !.pi = 1, !.projectState = NoProjectState, !.existing = FALSE,
                      !.workspaceSpaceId = None]
  /\ pc' = IF state.workspace.spaceId # None THEN "ws_join" ELSE "ws_create"
  /\ UNCHANGED <<tg, tx, be, br, isRunning, nm, rq, config, state, disk, temp, sv, sinceToken, inFlightEvents, hs,
                 pending, world, budget>>

\* ensureWorkspaceSpace, saved space: ensureJoinedRoom.
WorkspaceJoin ==
  /\ pc = "ws_join"
  /\ \/ /\ pc' = "ws_invites"
        /\ hist' = Logged("ensureJoinedRoom", "workspace")
        /\ UNCHANGED budget
     \/ /\ CanFail
        /\ Fault
        /\ pc' = "ws_create"
        /\ hist' = [Logged("ensureJoinedRoom", "workspace") EXCEPT
                      !.rec.joinFailed = TRUE, !.replaced = Inc(@, "workspace")]
  /\ UNCHANGED <<tg, tx, be, br, isRunning, nm, rq, config, state, disk, temp, sv, sinceToken, inFlightEvents, rl, hs,
                 pending, world>>

\* ensureWorkspaceSpace, saved space: ensureInvites, inside the same try.
WorkspaceInvites ==
  /\ pc = "ws_invites"
  /\ \/ /\ pc' = "p_begin"
        /\ rl' = [rl EXCEPT !.workspaceSpaceId = state.workspace.spaceId]
        /\ hist' = Logged("ensureInvites", "workspace")
        /\ UNCHANGED budget
     \/ /\ CanFail
        /\ Fault
        /\ pc' = "ws_create"
        /\ hist' = [Logged("ensureInvites", "workspace") EXCEPT
                      !.rec.invitesFailed = TRUE, !.replaced = Inc(@, "workspace")]
        /\ UNCHANGED rl
  /\ UNCHANGED <<tg, tx, be, br, isRunning, nm, rq, config, state, disk, temp, sv, sinceToken, inFlightEvents, hs,
                 pending, world>>

\* ensureWorkspaceSpace: createSpace and record the new ID in memory.
WorkspaceCreate ==
  /\ pc = "ws_create"
  /\ \/ /\ pc' = "p_begin"
        /\ world' = [world EXCEPT !.nextRoom = @ + 1]
        /\ state' = [state EXCEPT !.workspace =
             [ name |-> "Coding", topic |-> "Main", spaceId |-> RoomId(world.nextRoom),
               updatedAt |-> toISOString(world.clock) ]]
        /\ rl' = [rl EXCEPT !.workspaceSpaceId = RoomId(world.nextRoom)]
        /\ hist' = [Logged("createSpace", "workspace") EXCEPT !.created = Inc(@, "workspace")]
        /\ UNCHANGED <<tg, tx, be, br, isRunning, nm, rq, sinceToken, inFlightEvents, hs, pending, budget>>
     \/ /\ Abort("createSpace", "workspace")
        /\ UNCHANGED world
  /\ UNCHANGED <<tg, tx, be, br, isRunning, nm, rq, config, disk, temp, sv>>

\* ensureProjectResources, lines 421-433: projectState = existing ?? new.
ProjectBegin ==
  /\ pc = "p_begin"
  /\ rl.pi <= Len(config.projects)
  /\ LET existing == CurrentKey \in DOMAIN state.projects
         projectState ==
           IF existing THEN state.projects[CurrentKey]
           ELSE [ key |-> CurrentKey, displayName |-> CurrentKey,
                  projectSpaceId |-> None, lobbyRoomId |-> None, lobbyRoomName |-> None,
                  spark |-> sparkShape(CurrentKey),
                  updatedAt |-> toISOString(world.clock) ]
     IN /\ rl' = [rl EXCEPT !.existing = existing, !.projectState = projectState]
        /\ pc' = IF projectState.projectSpaceId # None THEN "p_space_join"
                  ELSE "p_space_create"
  /\ UNCHANGED <<tg, tx, be, br, isRunning, nm, rq, config, state, disk, temp, sv, sinceToken, inFlightEvents, hs,
                 pending, world, hist, budget>>

\* Variant: an error of ensureJoinedRoom on a stored ID is not caught.
JoinStoredUncaught(from, field, kind, joined, missing) ==
  /\ pc = from
  /\ \/ /\ pc' = joined
        /\ hist' = Logged("ensureJoinedRoom", Slot(kind, CurrentKey))
        /\ UNCHANGED <<tg, tx, be, br, isRunning, nm, rq, state, sinceToken, inFlightEvents, rl, hs, pending, budget>>
     \/ Abort("ensureJoinedRoom", Slot(kind, CurrentKey))
  /\ UNCHANGED <<tg, tx, be, br, isRunning, nm, rq, config, disk, temp, sv, world>>

\* try { ensureJoinedRoom(stored ID) } catch { stored ID = undefined }
JoinStored(from, field, kind, joined, missing) ==
  /\ pc = from
  /\ \/ /\ pc' = joined
        /\ hist' = Logged("ensureJoinedRoom", Slot(kind, CurrentKey))
        /\ UNCHANGED <<tg, tx, be, br, isRunning, nm, rq, state, rl, budget>>
     \/ /\ CanFail
        /\ Fault
        /\ AssignProject(field, None)
        /\ pc' = missing
        /\ hist' = [Logged("ensureJoinedRoom", Slot(kind, CurrentKey)) EXCEPT
                      !.rec.joinFailed = TRUE, !.replaced = Inc(@, Slot(kind, CurrentKey))]
  /\ UNCHANGED <<tg, tx, be, br, isRunning, nm, rq, config, disk, temp, sv, sinceToken, inFlightEvents, hs, pending, world>>

\* Variant: an error of the call is logged and reconcile goes on.
CallSwallowsError(from, op, kind, to) ==
  /\ pc = from
  /\ \/ /\ pc' = to
        /\ hist' = Logged(op, Slot(kind, CurrentKey))
        /\ UNCHANGED budget
     \/ /\ CanFail
        /\ Fault
        /\ pc' = to
        /\ UNCHANGED hist
  /\ UNCHANGED <<tg, tx, be, br, isRunning, nm, rq, state, sinceToken, inFlightEvents, rl, hs, pending>>
  /\ UNCHANGED <<tg, tx, be, br, isRunning, nm, rq, config, disk, temp, sv, world>>

\* A chat or spark call of reconcile whose error is not caught.
Call(from, op, kind, to) ==
  /\ pc = from
  /\ \/ /\ pc' = to
        /\ hist' = Logged(op, Slot(kind, CurrentKey))
        /\ UNCHANGED <<tg, tx, be, br, isRunning, nm, rq, state, sinceToken, inFlightEvents, rl, hs, pending, budget>>
     \/ Abort(op, Slot(kind, CurrentKey))
  /\ UNCHANGED <<tg, tx, be, br, isRunning, nm, rq, config, disk, temp, sv, world>>

ProjectSpaceJoin ==
  JoinStored("p_space_join", "projectSpaceId", "space", "p_space_link", "p_space_create")

ProjectSpaceCreate ==
  /\ pc = "p_space_create"
  /\ \/ /\ pc' = "p_space_link"
        /\ AssignProject("projectSpaceId", RoomId(world.nextRoom))
        /\ world' = [world EXCEPT !.nextRoom = @ + 1]
        /\ hist' = [Logged("createSpace", Slot("space", CurrentKey)) EXCEPT
                      !.created = Inc(@, Slot("space", CurrentKey))]
        /\ UNCHANGED <<tg, tx, be, br, isRunning, nm, rq, sinceToken, inFlightEvents, hs, pending, budget>>
     \/ /\ Abort("createSpace", Slot("space", CurrentKey))
        /\ UNCHANGED world
  /\ UNCHANGED <<tg, tx, be, br, isRunning, nm, rq, config, disk, temp, sv>>

ProjectSpaceLink ==
  Call("p_space_link", "linkRoomUnderSpace", "space", "p_space_invites")

ProjectSpaceInvites ==
  Call("p_space_invites", "ensureInvites", "space",
       IF rl.projectState.lobbyRoomId # None THEN "p_lobby_join" ELSE "p_lobby_create")

LobbyJoin ==
  JoinStored("p_lobby_join", "lobbyRoomId", "lobby", "p_lobby_link", "p_lobby_create")

LobbyCreate ==
  /\ pc = "p_lobby_create"
  /\ \/ /\ pc' = "p_lobby_link"
        /\ rl' = [rl EXCEPT !.projectState.lobbyRoomId = RoomId(world.nextRoom),
                            !.projectState.lobbyRoomName = "#lobby"]
        /\ state' = IF rl.existing
                     THEN [state EXCEPT !.projects[CurrentKey].lobbyRoomId = RoomId(world.nextRoom),
                                        !.projects[CurrentKey].lobbyRoomName = "#lobby"]
                     ELSE state
        /\ world' = [world EXCEPT !.nextRoom = @ + 1,
                                  !.lobbies = @ \cup {RoomId(world.nextRoom)}]
        /\ hist' = [Logged("createRoom", Slot("lobby", CurrentKey)) EXCEPT
                      !.created = Inc(@, Slot("lobby", CurrentKey))]
        /\ UNCHANGED <<tg, tx, be, br, isRunning, nm, rq, sinceToken, inFlightEvents, hs, pending, budget>>
     \/ /\ Abort("createRoom", Slot("lobby", CurrentKey))
        /\ UNCHANGED world
  /\ UNCHANGED <<tg, tx, be, br, isRunning, nm, rq, config, disk, temp, sv>>

LobbyLink == Call("p_lobby_link", "linkRoomUnderSpace", "lobby", "p_lobby_invites")

LobbyInvites == Call("p_lobby_invites", "ensureInvites", "lobby", "p_volume")

\* Variant: the main spark is not ensured before the repository is synced.
EnsureWorkVolumeThenRepo == Call("p_volume", "ensureWorkVolume", "spark", "p_repo")

EnsureWorkVolume == Call("p_volume", "ensureWorkVolume", "spark", "p_main")

EnsureMainSpark == Call("p_main", "ensureMainSpark", "spark", "p_repo")

EnsureRepoInMainSpark == Call("p_repo", "ensureRepoInMainSpark", "spark", "p_bootstrap")

\* Variant: the state is saved after every project.
RunBootstrapThenSave ==
  /\ pc = "p_bootstrap"
  /\ pc' = "p_begin"
  /\ hist' = [hist EXCEPT !.rec.calls = @ \o << <<"runBootstrap", Slot("spark", CurrentKey)>>,
                                                <<"save", "state">> >>]
  /\ state' = [state EXCEPT !.projects = Put(@, CurrentKey,
       [rl.projectState EXCEPT !.updatedAt = toISOString(world.clock),
                               !.spark = sparkShape(CurrentKey)])]
  /\ disk' = saved(state')
  /\ rl' = [rl EXCEPT !.pi = @ + 1, !.projectState = NoProjectState, !.existing = FALSE]
  /\ UNCHANGED <<tg, tx, be, br, isRunning, nm, rq, config, temp, sv, sinceToken, inFlightEvents, hs,
                 pending, world, budget>>

\* runBootstrap, then lines 498-507: the record is written back to the state.
RunBootstrap ==
  /\ pc = "p_bootstrap"
  /\ \/ /\ pc' = "p_begin"
        /\ hist' = Logged("runBootstrap", Slot("spark", CurrentKey))
        /\ state' = [state EXCEPT !.projects = Put(@, CurrentKey,
             [rl.projectState EXCEPT !.updatedAt = toISOString(world.clock),
                                     !.spark = sparkShape(CurrentKey)])]
        /\ rl' = [rl EXCEPT !.pi = @ + 1, !.projectState = NoProjectState, !.existing = FALSE]
        /\ UNCHANGED <<tg, tx, be, br, isRunning, nm, rq, sinceToken, inFlightEvents, hs, pending, budget>>
     \/ Abort("runBootstrap", Slot("spark", CurrentKey))
  /\ UNCHANGED <<tg, tx, be, br, isRunning, nm, rq, config, disk, temp, sv, world>>

\* reconcileWorkspaceAndProjects, line 112: persistState() after the last project.
ReconcileSave ==
  /\ pc = "p_begin"
  /\ rl.pi > Len(config.projects)
  /\ \/ /\ disk' = saved(state)
        /\ pc' = IF rl.second THEN "done" ELSE "init_sync"
        /\ hist' = Logged("save", "state")
        /\ UNCHANGED <<tg, tx, be, br, isRunning, nm, rq, state, sinceToken, inFlightEvents, rl, hs, pending, budget>>
     \/ /\ Abort("save", "state")
        /\ UNCHANGED disk
  /\ UNCHANGED <<tg, tx, be, br, isRunning, nm, rq, config, temp, sv, world>>

(***************************************************************************)
(* The homeserver's /sync and the users posting in lobby rooms.            *)
(***************************************************************************)
getLobbyRoomIds ==
  { state.projects[config.projects[i]].lobbyRoomId :
      i \in {j \in DOMAIN config.projects :
                /\ config.projects[j] \in DOMAIN state.projects
                /\ state.projects[config.projects[j]].lobbyRoomId # None} }

\* Events after the token, restricted by the filter to the requested rooms.
syncEvents(since, roomIds) ==
  SelectSeq(SubSeq(world.timeline, since + 1, Len(world.timeline)),
            LAMBDA e : e.roomId \in roomIds)

\* Variant: the rooms are visited from the last configured project to the first.
RECURSIVE handleSyncOrderReversed(_, _)
handleSyncOrderReversed(i, events) ==
  IF i > Len(config.projects) THEN <<>>
  ELSE LET key == config.projects[i]
           lobbyRoomId == IF key \in DOMAIN state.projects
                          THEN state.projects[key].lobbyRoomId ELSE None
           roomTimeline == SelectSeq(events, LAMBDA e : e.roomId = lobbyRoomId)
       IN handleSyncOrderReversed(i + 1, events)
          \o [j \in 1..Len(roomTimeline) |->
                [project |-> key, roomId |-> lobbyRoomId, event |-> roomTimeline[j].event]]

\* handleSync visits the projects in configured order and, for each, the
\* events of its lobby room in timeline order.
RECURSIVE handleSyncOrder(_, _)
handleSyncOrder(i, events) ==
  IF i > Len(config.projects) THEN <<>>
  ELSE LET key == config.projects[i]
           lobbyRoomId == IF key \in DOMAIN state.projects
                          THEN state.projects[key].lobbyRoomId ELSE None
           roomTimeline == SelectSeq(events, LAMBDA e : e.roomId = lobbyRoomId)
       IN [j \in 1..Len(roomTimeline) |->
             [project |-> key, roomId |-> lobbyRoomId, event |-> roomTimeline[j].event]]
          \o handleSyncOrder(i + 1, events)

\* A user (or the bot, or a re-delivery by the server) adds a timeline event
\* to a lobby room.  An event ID names one event of one room.
PostEvent ==
  /\ pc \in {"down", "init_sync", "loop"}
  /\ budget.posts < MaxPosts
  /\ \E roomId \in world.lobbies, event \in Events :
       world' = [world EXCEPT !.timeline = Append(@, [roomId |-> roomId, event |-> event])]
  /\ budget' = [budget EXCEPT !.posts = @ + 1]
  /\ UNCHANGED <<tg, tx, be, br, isRunning, nm, rq, config, pc, state, disk, temp, sv, sinceToken, inFlightEvents, rl, hs,
                 pending, hist>>

\* The wall clock advances while the process waits in the long poll.
Tick ==
  /\ pc = "loop"
  /\ world.clock < MaxClock
  /\ world' = [world EXCEPT !.clock = @ + 1]
  /\ UNCHANGED <<tg, tx, be, br, isRunning, nm, rq, config, pc, state, disk, temp, sv, sinceToken, inFlightEvents, rl, hs,
                 pending, hist, budget>>

\* initialize, lines 72-74: zero-timeout sync, only next_batch is kept.
\* init-dev then runs reconcileWorkspaceAndProjects a second time.
\* Variant: the events of the initial sync are left for the first sync of runLoop.
InitialSyncKeepsEvents ==
  /\ pc = "init_sync"
  /\ \/ /\ sinceToken' = 0
        /\ hist' = [hist EXCEPT !.startToken = Len(world.timeline)]
        /\ pc' = IF config.entry = "init-dev" THEN "reconcile" ELSE "loop"
        /\ rl' = [rl EXCEPT !.second = (config.entry = "init-dev")]
        /\ UNCHANGED <<tg, tx, be, br, isRunning, nm, rq, state, inFlightEvents, hs, pending, budget>>
     \/ Abort("sync", None)
  /\ UNCHANGED <<tg, tx, be, br, isRunning, nm, rq, config, disk, temp, sv, world>>

InitialSync ==
  /\ pc = "init_sync"
  /\ \/ /\ sinceToken' = Len(world.timeline)
        /\ hist' = [hist EXCEPT !.startToken = Len(world.timeline)]
        /\ pc' = IF config.entry = "init-dev" THEN "reconcile" ELSE "loop"
        /\ rl' = [rl EXCEPT !.second = (config.entry = "init-dev")]
        /\ UNCHANGED <<tg, tx, be, br, isRunning, nm, rq, state, inFlightEvents, hs, pending, budget>>
     \/ Abort("sync", None)
  /\ UNCHANGED <<tg, tx, be, br, isRunning, nm, rq, config, disk, temp, sv, world>>

\* init-dev main returns after the second reconcile.
Exit ==
  /\ pc = "done"
  /\ ProcessEnds
  /\ UNCHANGED <<tg, tx, be, br, isRunning, nm, rq, config, disk, temp, sv, world, budget>>

\* Variant: the token advances as soon as the sync response arrives.
LoopSyncAdvancesFirst ==
  /\ pc = "loop"
  /\ isRunning
  /\ \/ /\ hs' = [hs EXCEPT !.queue = handleSyncOrder(1, syncEvents(sinceToken, getLobbyRoomIds)),
                            !.since = sinceToken,
                            !.next_batch = Len(world.timeline)]
        /\ sinceToken' = Len(world.timeline)
        /\ pc' = "handleSync"
        /\ UNCHANGED budget
     \/ /\ CanFail
        /\ Fault
        /\ UNCHANGED <<tg, tx, be, br, isRunning, nm, rq, pc, hs, sinceToken>>
  /\ UNCHANGED <<tg, tx, be, br, isRunning, nm, rq, config, state, disk, temp, sv, inFlightEvents, rl,
                 pending, world, hist>>

\* Variant: the loop condition is not read again before the next sync.
LoopSyncIgnoresSignal ==
  /\ pc = "loop"
  /\ \/ /\ hs' = [hs EXCEPT !.queue = handleSyncOrder(1, syncEvents(sinceToken, getLobbyRoomIds)),
                            !.since = sinceToken,
                            !.next_batch = Len(world.timeline)]
        /\ pc' = "handleSync"
        /\ UNCHANGED budget
     \/ /\ CanFail
        /\ Fault
        /\ UNCHANGED <<tg, tx, be, br, isRunning, nm, rq, pc, hs>>
  /\ UNCHANGED <<tg, tx, be, br, isRunning, nm, rq, config, state, disk, temp, sv, sinceToken, inFlightEvents, rl,
                 pending, world, hist>>

\* runLoop, lines 86-98: shouldContinue() is read at the top of every
\* iteration; the body syncs, or catches the failed sync and sleeps.
LoopSync ==
  /\ pc = "loop"
  /\ isRunning
  /\ \/ /\ hs' = [hs EXCEPT !.queue = handleSyncOrder(1, syncEvents(sinceToken, getLobbyRoomIds)),
                            !.since = sinceToken,
                            !.next_batch = Len(world.timeline)]
        /\ pc' = "handleSync"
        /\ UNCHANGED budget
     \/ /\ CanFail
        /\ Fault
        /\ UNCHANGED <<tg, tx, be, br, isRunning, nm, rq, pc, hs>>
  /\ UNCHANGED <<tg, tx, be, br, isRunning, nm, rq, config, state, disk, temp, sv, sinceToken, inFlightEvents, rl,
                 pending, world, hist>>

\* runLoop, line 91: handleSync returned, the token advances.
HandleSyncReturns ==
  /\ pc = "handleSync"
  /\ hs.queue = <<>>
  /\ sinceToken' = hs.next_batch
  /\ pc' = "loop"
  /\ hs' = HsInit
  /\ UNCHANGED <<tg, tx, be, br, isRunning, nm, rq, config, state, disk, temp, sv, inFlightEvents, rl, pending, world,
                 hist, budget>>

Cur == Head(hs.queue)

CurMessage == toLobbyMessage(Cur.roomId, Cur.event)

\* The event being handled, as the observations name it.
CurKey == <<Cur.roomId, Cur.event.event_id>>

\* handleLobbyMessage, line 145: dedupeKey.
CurDedupeKey == eventKey(Cur.roomId, Cur.event.event_id)

\* handleSync, lines 130-133: toLobbyMessage returned null.
IgnoreEvent ==
  /\ pc = "handleSync"
  /\ hs.queue # <<>>
  /\ CurMessage = NoMessage
  /\ hs' = [hs EXCEPT !.queue = Tail(@)]
  /\ hist' = [hist EXCEPT !.ignored = @ \cup {CurKey}]
  /\ UNCHANGED <<tg, tx, be, br, isRunning, nm, rq, config, pc, state, disk, temp, sv, sinceToken, inFlightEvents, rl,
                 pending, world, budget>>

\* Variant: no deduplication.
isDuplicateNever(key) == FALSE

\* handleLobbyMessage, lines 145-152: the event is indexed or in flight.
isDuplicate(key) == key \in DOMAIN state.eventIndex \/ key \in inFlightEvents

DropDuplicate ==
  /\ pc = "handleSync"
  /\ hs.queue # <<>>
  /\ CurMessage # NoMessage
  /\ isDuplicate(CurDedupeKey)
  /\ hs' = [hs EXCEPT !.queue = Tail(@)]
  /\ hist' = [hist EXCEPT !.dropped = @ \cup {CurKey}]
  /\ UNCHANGED <<tg, tx, be, br, isRunning, nm, rq, config, pc, state, disk, temp, sv, sinceToken, inFlightEvents, rl,
                 pending, world, budget>>

(***************************************************************************)
(* handleLobbyMessage, spawnTaskForLobbyMessage, markFailedEvent.          *)
(***************************************************************************)
Op(h, op, outcome) ==
  [h EXCEPT !.ops = Put(@, CurKey, Append(IF CurKey \in DOMAIN @ THEN @[CurKey] ELSE <<>>,
                                          <<op, outcome>>)),
            !.lastSave = IF op = "save" THEN outcome ELSE @,
            !.saveThrew = @ \/ (op = "save" /\ outcome = "throws")]

Inserted(h) == [Op(h, "task", "inserted") EXCEPT !.spawned = Inc(@, CurKey)]

setTaskStatus(s, taskId, status, reason) ==
  [s EXCEPT !.tasks[taskId].status = status,
            !.tasks[taskId].statusReason = reason,
            !.tasks[taskId].updatedAt = toISOString(world.clock)]

\* Variant: the failure leaves the state as it is.
markFailedEventKeepsState(s, project, message, reason) == s

\* Variant: the failed task goes back to waiting.
markFailedEventResets(s, project, message, reason) ==
  LET dedupeKey == eventKey(message.roomId, message.eventId)
      taskId == member(s.eventIndex, dedupeKey)
  IN IF taskId # None /\ taskId \in DOMAIN s.tasks
     THEN setTaskStatus(s, taskId, "waiting", reason) ELSE s

\* Variant: the failure indexes the event and leaves its task as it is.
markFailedEventIndexOnly(s, project, message, reason) ==
  LET dedupeKey == eventKey(message.roomId, message.eventId)
  IN IF dedupeKey \in DOMAIN s.eventIndex THEN s
     ELSE [s EXCEPT !.eventIndex = Put(@, dedupeKey, "failed-" \o ToString(world.clock))]

\* markFailedEvent: the state it leaves.
markFailedEvent(s, project, message, reason) ==
  LET dedupeKey == eventKey(message.roomId, message.eventId)
      taskId == member(s.eventIndex, dedupeKey)
      marked == IF taskId # None /\ taskId \in DOMAIN s.tasks
                THEN setTaskStatus(s, taskId, "error", reason) ELSE s
      indexed == IF taskId = None
                 THEN [marked EXCEPT !.eventIndex =
                         Put(@, dedupeKey, "failed-" \o ToString(world.clock))]
                 ELSE marked
  IN IF indexed.projects[project].lobbyRoomId = None
     THEN [indexed EXCEPT !.projects[project].lobbyRoomId = message.roomId]
     ELSE indexed

\* Variant: the failure starts no chat request.
failureRequestsNone(s, message) == {}

\* Variant: the task room is left whatever keepErrorRooms says.
failureRequestsAlwaysLeave(s, message) ==
  LET dedupeKey == eventKey(message.roomId, message.eventId)
      taskId == member(s.eventIndex, dedupeKey)
      taskRoomId == IF taskId # None /\ taskId \in DOMAIN s.tasks
                    THEN s.tasks[taskId].taskRoomId ELSE None
  IN {[kind |-> "sendNotice", roomId |-> message.roomId, eventId |-> message.eventId]}
     \cup (IF taskRoomId # None
           THEN {[kind |-> "leaveAndForget", roomId |-> taskRoomId, eventId |-> message.eventId]}
           ELSE {})

\* markFailedEvent: the chat requests it starts without awaiting them.
failureRequests(s, message) ==
  LET dedupeKey == eventKey(message.roomId, message.eventId)
      taskId == member(s.eventIndex, dedupeKey)
      taskRoomId == IF taskId # None /\ taskId \in DOMAIN s.tasks
                    THEN s.tasks[taskId].taskRoomId ELSE None
  IN {[kind |-> "sendNotice", roomId |-> message.roomId, eventId |-> message.eventId]}
     \cup (IF taskRoomId # None /\ ~config.keepErrorRooms
           THEN {[kind |-> "leaveAndForget", roomId |-> taskRoomId, eventId |-> message.eventId]}
           ELSE {})

\* The catch of handleLobbyMessage after a step of the pipeline threw.
Caught(op) ==
  /\ CanFail
  /\ Fault
  /\ pc' = "finally"
  /\ state' = markFailedEvent(state, Cur.project, CurMessage, op \o " failed")
  /\ pending' = pending \cup failureRequests(state, CurMessage)
  /\ hist' = [Op(hist, op, "throws") EXCEPT !.failed = @ \cup {CurKey}]

\* Variant: the first save of the pipeline is left out.
SpawnTaskUnsaved ==
  /\ pc = "handleSync"
  /\ hs.queue # <<>>
  /\ CurMessage # NoMessage
  /\ ~isDuplicate(CurDedupeKey)
  /\ LET ids == buildTaskIdentifiers(Cur.project, CurMessage.body, CurMessage.eventId, Now(world.clock))
         taskRecord ==
           [ id |-> ids.taskId, projectKey |-> Cur.project,
             lobbyRoomId |-> CurMessage.roomId, lobbyEventId |-> CurMessage.eventId,
             taskRoomId |-> None, taskRoomName |-> None,
             sparkProject |-> None, sparkName |-> None,
             status |-> "waiting", statusReason |-> None,
             bridge |-> [pid |-> None, processId |-> None, rawOutput |-> None],
             initialPrompt |-> CurMessage.body,
             createdAt |-> toISOString(world.clock), updatedAt |-> toISOString(world.clock) ]
         inserted == [state EXCEPT !.tasks = Put(@, ids.taskId, taskRecord),
                                   !.eventIndex = Put(@, CurDedupeKey, ids.taskId)]
     IN /\ inFlightEvents' = inFlightEvents \cup {CurDedupeKey}
        /\ hs' = [hs EXCEPT !.taskId = ids.taskId, !.sparkName = ids.sparkName]
        /\ \/ /\ state' = inserted
              /\ pc' = "t_room"
              /\ hist' = Inserted(hist)
              /\ UNCHANGED <<tg, tx, be, br, isRunning, nm, rq, disk, pending, budget>>
           \/ /\ CanFail
              /\ Fault
              /\ state' = markFailedEvent(inserted, Cur.project, CurMessage, "save failed")
              /\ pending' = pending \cup failureRequests(inserted, CurMessage)
              /\ pc' = "finally"
              /\ hist' = [Op(Inserted(hist), "save", "throws") EXCEPT
                            !.failed = @ \cup {CurKey}]
              /\ UNCHANGED disk
  /\ UNCHANGED <<tg, tx, be, br, isRunning, nm, rq, config, temp, sv, sinceToken, rl, world>>

\* handleLobbyMessage lines 154-157 and spawnTaskForLobbyMessage lines
\* 171-193: the event is put in flight, the waiting task and the index entry
\* are inserted, and the state is saved.
\* handleLobbyMessage, lines 141-148: the event is a task message not seen yet.
SpawnTaskReady ==
  /\ pc = "handleSync"
  /\ hs.queue # <<>>
  /\ CurMessage # NoMessage
  /\ ~isDuplicate(CurDedupeKey)

SpawnTask ==
  /\ SpawnTaskReady
  /\ LET ids == buildTaskIdentifiers(Cur.project, CurMessage.body, CurMessage.eventId, Now(world.clock))
         taskRecord ==
           [ id |-> ids.taskId, projectKey |-> Cur.project,
             lobbyRoomId |-> CurMessage.roomId, lobbyEventId |-> CurMessage.eventId,
             taskRoomId |-> None, taskRoomName |-> None,
             sparkProject |-> None, sparkName |-> None,
             status |-> "waiting", statusReason |-> None,
             bridge |-> [pid |-> None, processId |-> None, rawOutput |-> None],
             initialPrompt |-> CurMessage.body,
             createdAt |-> toISOString(world.clock), updatedAt |-> toISOString(world.clock) ]
         inserted == [state EXCEPT !.tasks = Put(@, ids.taskId, taskRecord),
                                   !.eventIndex = Put(@, CurDedupeKey, ids.taskId)]
     IN /\ inFlightEvents' = inFlightEvents \cup {CurDedupeKey}
        /\ hs' = [hs EXCEPT !.taskId = ids.taskId, !.sparkName = ids.sparkName]
        /\ \/ /\ state' = inserted
              /\ disk' = saved(inserted)
              /\ pc' = "t_room"
              /\ hist' = Op(Inserted(hist), "save", "ok")
              /\ UNCHANGED <<tg, tx, be, br, isRunning, nm, rq, pending, budget>>
           \/ /\ CanFail
              /\ Fault
              /\ state' = markFailedEvent(inserted, Cur.project, CurMessage, "save failed")
              /\ pending' = pending \cup failureRequests(inserted, CurMessage)
              /\ pc' = "finally"
              /\ hist' = [Op(Inserted(hist), "save", "throws") EXCEPT
                            !.failed = @ \cup {CurKey}]
              /\ UNCHANGED disk
  /\ UNCHANGED <<tg, tx, be, br, isRunning, nm, rq, config, temp, sv, sinceToken, rl, world>>

\* Variant: handleLobbyMessage has no catch: the error of the call leaves
\* handleSync and reaches runLoop.
StepUncaught(from, op, to, after) ==
  /\ pc = from
  /\ \/ /\ pc' = to
        /\ state' = after
        /\ hist' = Op(hist, op, "ok")
        /\ hs' = hs
        /\ UNCHANGED <<tg, tx, be, br, isRunning, nm, rq, pending, budget>>
     \/ /\ CanFail
        /\ Fault
        /\ pc' = "loop"
        /\ hs' = HsInit
        /\ hist' = [Op(hist, op, "throws") EXCEPT !.failed = @ \cup {CurKey}]
        /\ UNCHANGED <<tg, tx, be, br, isRunning, nm, rq, state, pending>>
  /\ UNCHANGED <<tg, tx, be, br, isRunning, nm, rq, config, disk, temp, sv, sinceToken, inFlightEvents, rl>>

\* A chat or spark call of the pipeline: it returns, or it throws into the
\* catch of handleLobbyMessage.
Step(from, op, to, after) ==
  /\ pc = from
  /\ \/ /\ pc' = to
        /\ state' = after
        /\ hist' = Op(hist, op, "ok")
        /\ UNCHANGED <<tg, tx, be, br, isRunning, nm, rq, pending, budget>>
     \/ Caught(op)
  /\ UNCHANGED <<tg, tx, be, br, isRunning, nm, rq, config, disk, temp, sv, sinceToken, inFlightEvents, rl, hs>>

Notice(roomId, text, eventId) == [roomId |-> roomId, text |-> text, eventId |-> eventId]

\* lines 195-203
CreateTaskRoom ==
  /\ Step("t_room", "createRoom",
          IF state.projects[Cur.project].projectSpaceId # None THEN "t_link" ELSE "t_notice1",
          [state EXCEPT !.tasks[hs.taskId].taskRoomId = RoomId(world.nextRoom),
                        !.tasks[hs.taskId].taskRoomName = "#agent " \o CurMessage.eventId,
                        !.tasks[hs.taskId].updatedAt = toISOString(world.clock)])
  /\ world' = IF pc' = "finally" THEN world ELSE [world EXCEPT !.nextRoom = @ + 1]

\* lines 205-207
LinkTaskRoom ==
  /\ Step("t_link", "linkRoomUnderSpace", "t_notice1", state)
  /\ UNCHANGED world

\* lines 209-217
\* Variant: the prompt notice is left out, the fork follows the status notice.
SendStatusNoticeThenFork ==
  /\ Step("t_notice1", "sendNotice:status", "t_fork", state)
  /\ UNCHANGED world

SendStatusNotice ==
  /\ Step("t_notice1", "sendNotice:status", "t_notice2", state)
  /\ UNCHANGED world

\* lines 219-225
SendPromptNotice ==
  /\ Step("t_notice2", "sendNotice:prompt", "t_fork", state)
  /\ UNCHANGED world

\* Variant: the fork is not recorded in the task.
CreateTaskSparkForkUnrecorded ==
  /\ Step("t_fork", "createTaskSparkFork", "t_launch", state)
  /\ UNCHANGED world

\* Variant: the spark name is recorded before the fork is called.
CreateTaskSparkForkRecordsFirst ==
  LET recorded == [state EXCEPT !.tasks[hs.taskId].sparkProject = Cur.project,
                                !.tasks[hs.taskId].sparkName = hs.sparkName,
                                !.tasks[hs.taskId].updatedAt = toISOString(world.clock)]
  IN /\ pc = "t_fork"
     /\ \/ /\ pc' = "t_launch"
           /\ state' = recorded
           /\ hist' = Op(hist, "createTaskSparkFork", "ok")
           /\ UNCHANGED <<tg, tx, be, br, isRunning, nm, pending, budget>>
        \/ /\ CanFail
           /\ Fault
           /\ pc' = "finally"
           /\ state' = markFailedEvent(recorded, Cur.project, CurMessage,
                                       "createTaskSparkFork failed")
           /\ pending' = pending \cup failureRequests(recorded, CurMessage)
           /\ hist' = [Op(hist, "createTaskSparkFork", "throws") EXCEPT
                         !.failed = @ \cup {CurKey}]
     /\ UNCHANGED <<tg, tx, be, br, isRunning, nm, rq, config, disk, temp, sv, sinceToken, inFlightEvents, rl, hs, world>>

\* lines 227-241
CreateTaskSparkFork ==
  /\ Step("t_fork", "createTaskSparkFork", "t_launch",
          [state EXCEPT !.tasks[hs.taskId].sparkProject = Cur.project,
                        !.tasks[hs.taskId].sparkName = hs.sparkName,
                        !.tasks[hs.taskId].updatedAt = toISOString(world.clock)])
  /\ UNCHANGED world

\* lines 243-257
LaunchBridgeInSpark ==
  /\ Step("t_launch", "launchBridgeInSpark", "t_created",
          setTaskStatus([state EXCEPT !.tasks[hs.taskId].bridge =
                           [pid |-> "#777", processId |-> "bridge-777", rawOutput |-> "pid=777"]],
                        hs.taskId, "active", None))
  /\ UNCHANGED world

\* lines 259-270
SendTaskCreated ==
  /\ Step("t_created", "sendNotice:created", "t_save", state)
  /\ world' = IF pc' = "finally" THEN world
               ELSE [world EXCEPT !.notices = @ \cup
                       {Notice(CurMessage.roomId, "Task created.", CurMessage.eventId)}]

\* line 272: the last persistState of the pipeline.
SaveSpawned ==
  /\ pc = "t_save"
  /\ \/ /\ disk' = saved(state)
        /\ pc' = "finally"
        /\ hist' = Op(hist, "save", "ok")
        /\ UNCHANGED <<tg, tx, be, br, isRunning, nm, rq, state, pending, budget>>
     \/ /\ Caught("save")
        /\ UNCHANGED disk
  /\ UNCHANGED <<tg, tx, be, br, isRunning, nm, rq, config, temp, sv, sinceToken, inFlightEvents, rl, hs, world>>

\* Variant: the finally does not save.
FinallyUnsaved ==
  /\ pc = "finally"
  /\ inFlightEvents' = inFlightEvents \ {CurDedupeKey}
  /\ pc' = "handleSync"
  /\ hs' = [hs EXCEPT !.queue = Tail(@), !.taskId = None, !.sparkName = None]
  /\ UNCHANGED <<tg, tx, be, br, isRunning, nm, rq, config, state, disk, temp, sv, sinceToken, rl, pending, world, hist,
                 budget>>

\* handleLobbyMessage, finally: the event leaves inFlightEvents and the state
\* is saved; a save that throws here leaves handleSync and is caught by
\* runLoop, which logs, sleeps and loops without advancing the token.
Finally ==
  /\ pc = "finally"
  /\ inFlightEvents' = inFlightEvents \ {CurDedupeKey}
  /\ \/ /\ disk' = saved(state)
        /\ pc' = "handleSync"
        /\ hs' = [hs EXCEPT !.queue = Tail(@), !.taskId = None, !.sparkName = None]
        /\ hist' = Op(hist, "save", "ok")
        /\ UNCHANGED budget
     \/ /\ CanFail
        /\ Fault
        /\ pc' = "loop"
        /\ hs' = HsInit
        /\ hist' = Op(hist, "save", "throws")
        /\ UNCHANGED disk
  /\ UNCHANGED <<tg, tx, be, br, isRunning, nm, rq, config, state, temp, sv, sinceToken, rl, pending, world>>

\* The process runs one thing at a time: a request started without await
\* completes only while the main flow is itself waiting for a chat response.
AwaitPoints == {"loop", "t_room", "t_link", "t_notice1", "t_notice2", "t_created"}

\* The failure notice started by markFailedEvent completes: it is posted, or
\* the request fails and the .catch logs a warning.
SettleFailureNotice ==
  /\ pc \in AwaitPoints
  /\ \E r \in {q \in pending : q.kind = "sendNotice"} :
       /\ pending' = pending \ {r}
       /\ \/ /\ world' = [world EXCEPT !.notices = @ \cup
                             {Notice(r.roomId, "Task creation failed.", r.eventId)}]
             /\ hist' = [hist EXCEPT !.settled = @ \cup
                           {<<<<r.roomId, r.eventId>>, "posted">>}]
          \/ /\ UNCHANGED world
             /\ hist' = [hist EXCEPT !.settled = @ \cup
                           {<<<<r.roomId, r.eventId>>, "rejected">>}]
  /\ UNCHANGED <<tg, tx, be, br, isRunning, nm, rq, config, pc, state, disk, temp, sv, sinceToken, inFlightEvents, rl, hs,
                 budget>>

\* leaveAndForget started by markFailedEvent completes: the room is left, or
\* the leave request failed and the error was swallowed; it never rejects.
SettleLeaveAndForget ==
  /\ pc \in AwaitPoints
  /\ \E r \in {q \in pending : q.kind = "leaveAndForget"} :
       /\ pending' = pending \ {r}
       /\ \/ /\ world' = [world EXCEPT !.left = @ \cup {r.roomId}]
             /\ hist' = [hist EXCEPT !.settled = @ \cup
                           {<<<<r.roomId, r.eventId>>, "left">>}]
          \/ /\ UNCHANGED world
             /\ hist' = [hist EXCEPT !.settled = @ \cup
                           {<<<<r.roomId, r.eventId>>, "leaveFailed">>}]
  /\ UNCHANGED <<tg, tx, be, br, isRunning, nm, rq, config, pc, state, disk, temp, sv, sinceToken, inFlightEvents, rl, hs,
                 budget>>

\* The process is killed (or the machine stops) between two steps.
Crash ==
  /\ pc # "down"
  /\ budget.runs < MaxRuns
  /\ ProcessEnds
  /\ UNCHANGED <<tg, tx, be, br, isRunning, nm, rq, config, disk, temp, sv, world, budget>>

NextReconcile ==
  \/ Boot \/ Verify \/ ReconcileBegin
  \/ WorkspaceJoin \/ WorkspaceInvites \/ WorkspaceCreate
  \/ ProjectBegin \/ ProjectSpaceJoin \/ ProjectSpaceCreate \/ ProjectSpaceLink
  \/ ProjectSpaceInvites \/ LobbyJoin \/ LobbyCreate \/ LobbyLink \/ LobbyInvites
  \/ EnsureWorkVolume \/ EnsureMainSpark \/ EnsureRepoInMainSpark \/ RunBootstrap
  \/ ReconcileSave \/ InitialSync \/ Exit
  \/ Crash

SpecReconcile == InitReconcile /\ [][NextReconcile]_vars

Next ==
  \/ Boot \/ Verify \/ ReconcileBegin
  \/ WorkspaceJoin \/ WorkspaceInvites \/ WorkspaceCreate
  \/ ProjectBegin \/ ProjectSpaceJoin \/ ProjectSpaceCreate \/ ProjectSpaceLink
  \/ ProjectSpaceInvites \/ LobbyJoin \/ LobbyCreate \/ LobbyLink \/ LobbyInvites
  \/ EnsureWorkVolume \/ EnsureMainSpark \/ EnsureRepoInMainSpark \/ RunBootstrap
  \/ ReconcileSave \/ InitialSync
  \/ PostEvent \/ Tick
  \/ LoopSync \/ HandleSyncReturns \/ IgnoreEvent \/ DropDuplicate \/ SpawnTask
  \/ CreateTaskRoom \/ LinkTaskRoom \/ SendStatusNotice \/ SendPromptNotice
  \/ CreateTaskSparkFork \/ LaunchBridgeInSpark \/ SendTaskCreated \/ SaveSpawned
  \/ Finally \/ SettleFailureNotice \/ SettleLeaveAndForget
  \/ Crash

Spec == Init /\ [][Next]_vars

TypeOK ==
  /\ pc \in {"down", "verify", "reconcile", "ws_join", "ws_invites", "ws_create", "p_begin",
              "p_space_join", "p_space_create", "p_space_link", "p_space_invites",
              "p_lobby_join", "p_lobby_create", "p_lobby_link", "p_lobby_invites",
              "p_volume", "p_main", "p_repo", "p_bootstrap", "init_sync", "done", "loop",
              "handleSync", "t_room", "t_link", "t_notice1", "t_notice2", "t_fork",
              "t_launch", "t_created", "t_save", "finally", "stopped"}
  /\ budget.faults <= MaxFaults
  /\ budget.runs <= MaxRuns

(***************************************************************************)
(* JsonOrchestratorStateStore.save, step by step.                          *)
(*   payload = JSON.stringify(state); fd = openSync(tempPath, "w");        *)
(*   try { writeFileSync(fd, payload); fsyncSync(fd) } finally { close }   *)
(*   renameSync(tempPath, filePath); try { fsync(dir) } catch {}           *)
(* A step can throw (save throws to its caller) and the process can stop   *)
(* between any two steps, also in the middle of the write.                 *)
(***************************************************************************)
StateWithWorkspace ==
  [createDefaultState EXCEPT !.workspace =
     [name |-> "Coding", topic |-> "Main", spaceId |-> RoomId(1), updatedAt |-> toISOString(0)]]

StateWithProject ==
  [StateWithWorkspace EXCEPT !.projects = Put(@, "rc",
     [ key |-> "rc", displayName |-> "rc", projectSpaceId |-> RoomId(2),
       lobbyRoomId |-> RoomId(3), lobbyRoomName |-> "#lobby", spark |-> sparkShape("rc"),
       updatedAt |-> toISOString(0) ])]

StateWithTask ==
  [StateWithProject EXCEPT
     !.tasks = Put(@, buildTaskIdentifiers("rc", <<"f", "i", "x">>, "$e1", Now(0)).taskId,
       [ id |-> buildTaskIdentifiers("rc", <<"f", "i", "x">>, "$e1", Now(0)).taskId, projectKey |-> "rc",
         lobbyRoomId |-> RoomId(3), lobbyEventId |-> "$e1",
         taskRoomId |-> None, taskRoomName |-> None, sparkProject |-> None,
         sparkName |-> None, status |-> "waiting", statusReason |-> None,
         bridge |-> [pid |-> None, processId |-> None, rawOutput |-> None],
         initialPrompt |-> <<"f", "i", "x">>,
         createdAt |-> toISOString(0), updatedAt |-> toISOString(0) ]),
     !.eventIndex = Put(@, eventKey(RoomId(3), "$e1"), buildTaskIdentifiers("rc", <<"f", "i", "x">>, "$e1", Now(0)).taskId)]

\* States the orchestrator hands to save: after construction, after the
\* workspace, after a project, after a task was inserted.
SaveStates == {createDefaultState, StateWithWorkspace, StateWithProject, StateWithTask}

InitSave ==
  InitWith([projects : {<<ProjectKeys[1]>>}, keepErrorRooms : {FALSE}, entry : {"orchestrator"}])

SaveThrows ==
  /\ CanFail
  /\ Fault
  /\ pc' = "s_idle"
  /\ sv' = [sv EXCEPT !.open = FALSE]

\* The process starts: the constructor loads the file.
SaveBoot ==
  /\ pc = "down"
  /\ budget.runs < MaxRuns
  /\ budget' = [budget EXCEPT !.runs = @ + 1]
  /\ state' = load(disk)
  /\ pc' = "s_idle"
  /\ UNCHANGED <<tg, tx, be, br, isRunning, nm, rq, config, disk, temp, sv, sinceToken, inFlightEvents, rl, hs, pending,
                 world, hist>>

\* The orchestrator changed its state and calls save: lines 90-95.
SaveOpen ==
  /\ pc = "s_idle"
  /\ sv.saves < MaxSaves
  /\ \E s \in SaveStates :
       /\ state' = s
       /\ \/ /\ sv' = [sv EXCEPT !.payload = stringify(s), !.written = 0, !.prev = disk,
                                  !.saves = @ + 1, !.open = TRUE]
             /\ temp' = [exists |-> TRUE, text |-> <<>>]
             /\ pc' = "s_write"
             /\ UNCHANGED budget
          \/ /\ CanFail
             /\ Fault
             /\ sv' = [sv EXCEPT !.payload = stringify(s), !.written = 0, !.prev = disk,
                                 !.saves = @ + 1]
             /\ UNCHANGED <<tg, tx, be, br, isRunning, nm, rq, temp, pc>>
  /\ UNCHANGED <<tg, tx, be, br, isRunning, nm, rq, config, disk, sinceToken, inFlightEvents, rl, hs, pending, world, hist>>

\* writeFileSync(fd, payload): the text reaches the temp file piece by piece.
SaveWriteInPlace ==
  /\ pc = "s_write"
  /\ \/ /\ disk' = [exists |-> TRUE, text |-> SubSeq(sv.payload, 1, sv.written + 1)]
        /\ temp' = [temp EXCEPT !.text = SubSeq(sv.payload, 1, sv.written + 1)]
        /\ sv' = [sv EXCEPT !.written = @ + 1]
        /\ pc' = IF sv.written + 1 = Len(sv.payload) THEN "s_fsync" ELSE "s_write"
        /\ UNCHANGED budget
     \/ /\ SaveThrows
        /\ UNCHANGED <<tg, tx, be, br, isRunning, nm, rq, disk, temp>>
  /\ UNCHANGED <<tg, tx, be, br, isRunning, nm, rq, config, state, sinceToken, inFlightEvents, rl, hs, pending, world, hist>>

SaveWrite ==
  /\ pc = "s_write"
  /\ \/ /\ temp' = [temp EXCEPT !.text = SubSeq(sv.payload, 1, sv.written + 1)]
        /\ sv' = [sv EXCEPT !.written = @ + 1]
        /\ pc' = IF sv.written + 1 = Len(sv.payload) THEN "s_fsync" ELSE "s_write"
        /\ UNCHANGED <<tg, tx, be, br, isRunning, nm, rq, disk, budget>>
     \/ /\ SaveThrows
        /\ UNCHANGED <<tg, tx, be, br, isRunning, nm, rq, disk, temp>>
  /\ UNCHANGED <<tg, tx, be, br, isRunning, nm, rq, config, state, sinceToken, inFlightEvents, rl, hs, pending, world, hist>>

\* fsyncSync(fd), then closeSync(fd) in the finally.
SaveFsync ==
  /\ pc = "s_fsync"
  /\ \/ /\ pc' = "s_rename"
        /\ sv' = [sv EXCEPT !.open = FALSE]
        /\ UNCHANGED budget
     \/ SaveThrows
  /\ UNCHANGED <<tg, tx, be, br, isRunning, nm, rq, config, state, disk, temp, sinceToken, inFlightEvents, rl, hs, pending,
                 world, hist>>

\* renameSync(tempPath, filePath): the canonical name now holds the temp file.
SaveRename ==
  /\ pc = "s_rename"
  /\ \/ /\ disk' = temp
        /\ temp' = NoFile
        /\ pc' = "s_dirsync"
        /\ UNCHANGED <<tg, tx, be, br, isRunning, nm, rq, sv, budget>>
     \/ /\ SaveThrows
        /\ UNCHANGED <<tg, tx, be, br, isRunning, nm, rq, disk, temp>>
  /\ UNCHANGED <<tg, tx, be, br, isRunning, nm, rq, config, state, sinceToken, inFlightEvents, rl, hs, pending, world, hist>>

\* fsync of the directory: an error is swallowed; save returns.
SaveDirFsync ==
  /\ pc = "s_dirsync"
  /\ pc' = "s_idle"
  /\ \/ UNCHANGED budget
     \/ CanFail /\ Fault
  /\ UNCHANGED <<tg, tx, be, br, isRunning, nm, rq, config, state, disk, temp, sv, sinceToken, inFlightEvents, rl, hs,
                 pending, world, hist>>

\* The process stops at any point of save.
SaveCrash ==
  /\ pc \in {"s_idle", "s_write", "s_fsync", "s_rename", "s_dirsync"}
  /\ budget.runs < MaxRuns
  /\ pc' = "down"
  /\ state' = createDefaultState
  /\ sv' = [sv EXCEPT !.open = FALSE]
  /\ UNCHANGED <<tg, tx, be, br, isRunning, nm, rq, config, disk, temp, sinceToken, inFlightEvents, rl, hs, pending, world,
                 hist, budget>>

NextSave ==
  \/ SaveBoot \/ SaveOpen \/ SaveWrite \/ SaveFsync \/ SaveRename \/ SaveDirFsync
  \/ SaveCrash

SpecSave == InitSave /\ [][NextSave]_vars


(***************************************************************************)
(* Properties of the sync loop and the task pipeline (Spec).               *)
(***************************************************************************)
\* The eventIndex key of an observed (roomId, eventId).
IndexKey(key) == eventKey(key[1], key[2])

OpsOf(key) == IF key \in DOMAIN hist.ops THEN hist.ops[key] ELSE <<>>

\* How many times op was called for the lobby event key, over all runs.
Calls(key, op) == Cardinality({i \in DOMAIN OpsOf(key) : OpsOf(key)[i][1] = op})

InPipeline ==
  pc \in {"t_room", "t_link", "t_notice1", "t_notice2", "t_fork", "t_launch", "t_created",
          "t_save"}

\* C1: whatever the sync responses deliver, repeated deliveries included, a
\* process creates at most one Task record per (roomId, eventId), and
\* createTaskSparkFork and launchBridgeInSpark are each invoked at most once
\* for it.
C1_AtMostOneTaskPerEvent ==
  \A key \in DOMAIN hist.ops :
    /\ Count(hist.spawned, key) <= 1
    /\ Calls(key, "createTaskSparkFork") <= 1
    /\ Calls(key, "launchBridgeInSpark") <= 1

\* An event was spawned (forked and launched) and a later delivery of it was
\* dropped by the same process.
C1_Witness ==
  \E key \in hist.dropped :
    /\ Count(hist.spawned, key) = 1
    /\ Calls(key, "createTaskSparkFork") = 1
    /\ Calls(key, "launchBridgeInSpark") = 1

\* C2: while the pipeline of an event makes its external calls the state file
\* already holds the Task record and the eventIndex entry of the event (the
\* Task still waiting before createRoom); and over all runs, restarts after a
\* crash included, createRoom and createTaskSparkFork are called at most once
\* for the event and no Task is inserted for it once a save holding its
\* index entry succeeded.
C2_PersistBeforeExternalCalls ==
  /\ InPipeline =>
       LET file == load(disk)
       IN /\ CurDedupeKey \in DOMAIN file.eventIndex
          /\ file.eventIndex[CurDedupeKey] = hs.taskId
          /\ hs.taskId \in DOMAIN file.tasks
          /\ file.tasks[hs.taskId].lobbyEventId = CurKey[2]
          /\ pc = "t_room" => file.tasks[hs.taskId].status = "waiting"
  /\ \A key \in DOMAIN hist.ops :
       /\ Calls(key, "createRoom") <= 1
       /\ Calls(key, "createTaskSparkFork") <= 1
       /\ \A i \in DOMAIN hist.ops[key] :
            hist.ops[key][i] = <<"task", "inserted">> =>
              \A j \in 1..(i - 1) : hist.ops[key][j] # <<"save", "ok">>

\* The process stopped after createRoom, restarted, and dropped the event
\* when it was delivered again: its Task is still the waiting one of the file.
C2_Witness ==
  /\ budget.runs = 2
  /\ \E key \in hist.dropped :
       /\ IndexKey(key) \in DOMAIN state.eventIndex
       /\ state.eventIndex[IndexKey(key)] \in DOMAIN state.tasks
       /\ state.tasks[state.eventIndex[IndexKey(key)]].status = "waiting"
       /\ Calls(key, "createRoom") = 1
       /\ Calls(key, "task") = 1

\* C3: sinceToken changes only when handleSync has returned normally, and
\* then to the next_batch of the response just handled (initialize sets the
\* first token); a sync or a handleSync that raises leaves it unchanged; every
\* sync of runLoop is requested with the current token; and a delivered event
\* that is already indexed is dropped, not spawned again.
C3_TokenAdvancesAfterHandling ==
  [][ /\ (sinceToken' # sinceToken /\ pc' # "down") =>
           \/ pc = "init_sync"
           \/ pc = "handleSync" /\ hs.queue = <<>> /\ sinceToken' = hs.next_batch
      /\ (pc \in {"loop", "finally"} /\ pc' = "loop") => sinceToken' = sinceToken
      /\ (pc = "loop" /\ pc' = "handleSync") =>
           /\ hs'.since = sinceToken
           /\ hs'.queue = handleSyncOrder(1, syncEvents(sinceToken, getLobbyRoomIds))
      /\ (pc = "handleSync" /\ hs.queue # <<>> /\ CurDedupeKey \in DOMAIN state.eventIndex
             /\ pc' # "down") =>
           /\ pc' = "handleSync"
           /\ hist'.ops = hist.ops /\ hist'.spawned = hist.spawned
           /\ state' = state /\ disk' = disk
    ]_vars

\* The save in the finally of handleLobbyMessage threw, runLoop asked for
\* the same batch again, the event was dropped, and only then the token
\* moved past it.
C3_Witness ==
  /\ pc = "loop"
  /\ budget.runs = 1
  /\ Len(world.timeline) = 1
  /\ sinceToken = 1
  /\ \E key \in hist.dropped : Last(OpsOf(key)) = <<"save", "throws">>

\* C4: when a step of the pipeline fails, the Task of the event has status
\* error and a statusReason when the catch is done, and the save of the
\* finally writes that to the file; the eventIndex entry of the event stays,
\* and the process never spawns for the event again.
C4_FailureMarksTaskError ==
  /\ [](\A key \in hist.failed :
          /\ IndexKey(key) \in DOMAIN state.eventIndex
          /\ Count(hist.spawned, key) <= 1)
  /\ []((pc = "finally" /\ CurKey \in hist.failed) =>
          /\ state.eventIndex[CurDedupeKey] \in DOMAIN state.tasks
          /\ state.tasks[state.eventIndex[CurDedupeKey]].status = "error"
          /\ state.tasks[state.eventIndex[CurDedupeKey]].statusReason # None)
  /\ [][ (pc = "finally" /\ CurKey \in hist.failed /\ pc' = "handleSync") =>
            LET file == load(disk')
            IN /\ CurDedupeKey \in DOMAIN file.eventIndex
               /\ file.eventIndex[CurDedupeKey] \in DOMAIN file.tasks
               /\ file.tasks[file.eventIndex[CurDedupeKey]].status = "error"
               /\ file.tasks[file.eventIndex[CurDedupeKey]].statusReason # None
        ]_vars

\* createTaskSparkFork threw, the error Task reached the file, and a later
\* delivery of the event was dropped.
C4_Witness ==
  \E key \in hist.failed \cap hist.dropped :
    /\ <<"createTaskSparkFork", "throws">> \in Range(OpsOf(key))
    /\ Count(hist.spawned, key) = 1
    /\ load(disk).tasks[load(disk).eventIndex[IndexKey(key)]].status = "error"

FailureNotice(key) == Notice(key[1], "Task creation failed.", key[2])

Qualifies(event) ==
  /\ event.type = "m.room.message"
  /\ event.event_id # None
  /\ event.sender # None
  /\ event.sender # botUserId
  /\ event.body.kind = "string"
  /\ trim(event.body.text) # <<>>
  /\ Head(trim(event.body.text)) # "/"

\* handleSync takes the next delivered event.
TakesEvent == pc = "handleSync" /\ hs.queue # <<>> /\ pc' # "down"

StartsPipeline ==
  /\ CurKey \in DOMAIN hist'.ops
  /\ Len(hist'.ops[CurKey]) > Len(OpsOf(CurKey))
  /\ hist'.ops[CurKey][Len(OpsOf(CurKey)) + 1] = <<"task", "inserted">>

\* No state change, no save, no chat or spark call, nothing left pending.
NoEffect ==
  /\ state' = state /\ disk' = disk /\ world' = world
  /\ hist'.ops = hist.ops /\ pending' = pending /\ inFlightEvents' = inFlightEvents

\* C6 as stated: a delivered event starts a task pipeline if and only if it
\* passes the filter; every other event has no effect.
C6_Original ==
  [][ TakesEvent => /\ StartsPipeline <=> Qualifies(Cur.event)
                    /\ ~Qualifies(Cur.event) => NoEffect ]_vars

\* C6: a delivered event starts a task pipeline if and only if it passes the
\* filter and its (roomId, eventId) is neither indexed nor in flight; every
\* other event leaves tasks and eventIndex unchanged, triggers no save and
\* causes no chat or spark call.
C6_FilterAndDedupe ==
  [][ TakesEvent => /\ StartsPipeline <=> (Qualifies(Cur.event) /\ ~isDuplicate(CurDedupeKey))
                    /\ ~StartsPipeline => NoEffect ]_vars

\* In one run "/help" was ignored and a work request started a pipeline.
C6_Witness ==
  /\ \E key \in hist.ignored : key[2] = "$e2"
  /\ \E key \in DOMAIN hist.spawned : key[2] = "$e1" /\ key \notin hist.ignored

\* The status changes of the step: <<old, new>> for every Task (the record of
\* one lobby event under one task ID) present before and after.
StatusChanges ==
  { <<state.tasks[id].status, state'.tasks[id].status>> :
      id \in { i \in DOMAIN state.tasks \cap DOMAIN state'.tasks :
                 /\ state.tasks[i].lobbyEventId = state'.tasks[i].lobbyEventId
                 /\ state.tasks[i].lobbyRoomId = state'.tasks[i].lobbyRoomId
                 /\ state.tasks[i].status # state'.tasks[i].status } }

\* C17 as stated: the only status changes are waiting -> active and
\* waiting -> error.
C17_Original ==
  [][StatusChanges \subseteq {<<"waiting", "active">>, <<"waiting", "error">>}]_vars

\* C17: the orchestrator changes a task's status only by waiting -> active,
\* waiting -> error and active -> error (a step after the launch failed); an
\* error task never changes status again.
C17_StatusTransitions ==
  [][StatusChanges \subseteq
       {<<"waiting", "active">>, <<"waiting", "error">>, <<"active", "error">>}]_vars

\* The bridge was launched and the task set active; then the "Task created."
\* notice or the last save threw and the task was set to error.
C17_Witness ==
  \E id \in DOMAIN state.tasks :
    /\ state.tasks[id].status = "error"
    /\ state.tasks[id].bridge.pid # None
    /\ state.tasks[id].statusReason \in {"sendNotice:created failed", "save failed"}

\* The snapshots a Task can be read from: the memory of the process and the
\* state file as load reads it.
Snapshots == {state, load(disk)}

\* C18: in memory and in the persisted snapshot, every Task with status
\* active, needs_input or completed has taskRoomId and sparkName populated.
C18_LaunchedTasksHaveRoomAndSpark ==
  \A s \in Snapshots : \A id \in DOMAIN s.tasks :
    s.tasks[id].status \in {"active", "needs_input", "completed"} =>
      /\ s.tasks[id].taskRoomId # None
      /\ s.tasks[id].sparkName # None

\* An active task is in memory and in the file.
C18_Witness ==
  \E id \in DOMAIN state.tasks :
    /\ state.tasks[id].status = "active"
    /\ id \in DOMAIN load(disk).tasks
    /\ load(disk).tasks[id].status = "active"
    /\ load(disk).tasks[id].sparkName # None

\* The fork of the Task's lobby event returned.
ForkReturned(task) ==
  <<"createTaskSparkFork", "ok">> \in Range(OpsOf(<<task.lobbyRoomId, task.lobbyEventId>>))

\* C19: no persisted snapshot holds a waiting Task with a sparkName whose
\* fork did not succeed: sparkProject and sparkName are in a Task, in memory
\* or in the file, only after createTaskSparkFork returned for it, whatever
\* step fails or crashes.
C19_SparkNameOnlyAfterFork ==
  \A s \in Snapshots : \A id \in DOMAIN s.tasks :
    (s.tasks[id].sparkName # None \/ s.tasks[id].sparkProject # None) =>
      ForkReturned(s.tasks[id])

\* The fork returned and the launch threw: the file holds the failed task
\* with its spark name; another task of the file has none.
C19_Witness ==
  /\ \E id \in DOMAIN load(disk).tasks :
        /\ load(disk).tasks[id].sparkName # None
        /\ load(disk).tasks[id].statusReason = "launchBridgeInSpark failed"
  /\ \E id \in DOMAIN load(disk).tasks : load(disk).tasks[id].sparkName = None

\* A commitment of the memory that the file does not hold: an eventIndex
\* entry, or a task status active or error.
Unsaved ==
  \/ \E k \in DOMAIN state.eventIndex : k \notin DOMAIN load(disk).eventIndex
  \/ \E id \in DOMAIN state.tasks :
       /\ state.tasks[id].status \in {"active", "error"}
       /\ \/ id \notin DOMAIN load(disk).tasks
          \/ load(disk).tasks[id].status # state.tasks[id].status

\* The positions at which the pipeline has a chat or spark call under way.
CallPoints == {"t_room", "t_link", "t_notice1", "t_notice2", "t_fork", "t_launch", "t_created"}

C21_SaveFailureIsFatal ==
  hist.saveThrew => pc \in {"finally", "loop", "down"}

\* leaveAndForget was invoked in this run for the failed event.
LeaveInvoked(key) ==
  \/ \E r \in pending : r.kind = "leaveAndForget" /\ r.eventId = key[2]
  \/ \E x \in hist.settled : x[2] \in {"left", "leaveFailed"} /\ x[1][2] = key[2]

RoomCreated(key) == <<"createRoom", "ok">> \in Range(OpsOf(key))

\* A step in which a leaveAndForget request completes.
LeaveSettles ==
  \E x \in hist'.settled \ hist.settled : x[2] \in {"left", "leaveFailed"}

\* C22: on a spawn failure leaveAndForget is invoked on the task room exactly
\* when a task room was created and keepErrorRooms is false (never with
\* keepErrorRooms true, never without a room); the request failing raises
\* nothing and leaves the state, the error status included, as it is.
C22_LeaveAndForgetOnFailure ==
  /\ [](\A key \in hist.failed :
          LeaveInvoked(key) <=> (RoomCreated(key) /\ ~config.keepErrorRooms))
  /\ [](config.keepErrorRooms => world.left = {})
  /\ [](\A r \in pending : r.kind = "leaveAndForget" =>
          /\ \E key \in hist.failed : key[2] = r.eventId
          /\ \E n \in 1..(world.nextRoom - 1) : r.roomId = RoomId(n))
  /\ [][LeaveSettles => (state' = state /\ pc' = pc /\ disk' = disk)]_vars

\* The pipeline failed after its room was created, and the leave request
\* failed: the task is still error, the room is not left.
C22_Witness ==
  /\ ~config.keepErrorRooms
  /\ \E x \in hist.settled :
        /\ x[2] = "leaveFailed"
        /\ x[1][1] \notin world.left
        /\ \E id \in DOMAIN state.tasks :
              /\ state.tasks[id].taskRoomId = x[1][1]
              /\ state.tasks[id].status = "error"

\* C24: two distinct accepted lobby events never receive the same taskId:
\* the eventIndex names a different task for each event, and each of them
\* is the record of that event.
C24_TaskIdsUnique ==
  \A k1 \in DOMAIN state.eventIndex :
    /\ \A k2 \in DOMAIN state.eventIndex \ {k1} :
         state.eventIndex[k1] # state.eventIndex[k2]
    /\ state.eventIndex[k1] \in DOMAIN state.tasks =>
         k1 = eventKey(state.tasks[state.eventIndex[k1]].lobbyRoomId,
                       state.tasks[state.eventIndex[k1]].lobbyEventId)

\* Key of the event at position i of the homeserver timeline.
KeyAt(i) == <<world.timeline[i].roomId, world.timeline[i].event.event_id>>

\* Keys the run has looked at: spawned, failed, dropped as duplicate or ignored.
Handled == DOMAIN hist.spawned \cup hist.failed \cup hist.dropped \cup hist.ignored

\* Keys delivered only up to the initial sync of the running process.
OfflineOnly ==
  { KeyAt(i) : i \in { j \in 1..hist.startToken :
                         \A l \in (hist.startToken + 1)..Len(world.timeline) :
                           KeyAt(l) # KeyAt(j) } }

\* C26: the events returned by the zero-timeout sync of initialize are never
\* handled.  Once the initial sync has returned, the token of runLoop is at
\* least that sync's next_batch, every sync of runLoop starts at or after it,
\* and an event delivered only before it is neither spawned, failed, dropped
\* nor ignored by the run; unless an earlier run handled it, it has no
\* eventIndex entry and no task.
C26_InitialSyncEventsSkipped ==
  hist.startToken # NoToken =>
    /\ sinceToken >= hist.startToken
    /\ pc # "loop" => hs.since >= hist.startToken
    /\ \A key \in OfflineOnly :
         /\ key \notin Handled
         /\ \A i \in 1..Len(hs.queue) :
              <<hs.queue[i].roomId, hs.queue[i].event.event_id>> # key
         /\ key \notin DOMAIN hist.ops =>
              /\ IndexKey(key) \notin DOMAIN state.eventIndex
              /\ \A id \in DOMAIN state.tasks :
                   ~ (state.tasks[id].lobbyRoomId = key[1]
                      /\ state.tasks[id].lobbyEventId = key[2])

\* A task message arrived while the process was down, the initial sync passed
\* it, and a later batch with another message was handled to the end.
C26_Witness ==
  /\ hist.startToken # NoToken
  /\ \E i \in 1..hist.startToken :
       /\ KeyAt(i) \in OfflineOnly
       /\ world.timeline[i].event.event_id \in {"$e1", "$e3"}
       /\ world.timeline[i].roomId \in getLobbyRoomIds
  /\ sinceToken > hist.startToken
  /\ DOMAIN hist.spawned # {}
  /\ pc = "loop"

\* Place of an external call in the pipeline of spawnTaskForLobbyMessage
\* (0 for the entries of hist.ops that are not external calls).
Rank(op) ==
  CASE op = "createRoom" -> 1
    [] op = "linkRoomUnderSpace" -> 2
    [] op = "sendNotice:status" -> 3
    [] op = "sendNotice:prompt" -> 4
    [] op = "createTaskSparkFork" -> 5
    [] op = "launchBridgeInSpark" -> 6
    [] op = "sendNotice:created" -> 7
    [] OTHER -> 0

\* Entries i < j of hist.ops[key] belong to the same pipeline.
SamePipeline(key, i, j) ==
  i < j /\ \A k \in (i + 1)..j : hist.ops[key][k][1] # "task"

\* The call at entry j came after a successful call of place r in its pipeline.
After(key, j, r) ==
  \E i \in 1..(j - 1) :
    /\ SamePipeline(key, i, j)
    /\ Rank(hist.ops[key][i][1]) = r
    /\ hist.ops[key][i][2] = "ok"

ReconcileDone == pc \in {"init_sync", "done"}

\* The pass started with every ID stored and every ensureJoinedRoom succeeded.
AllStoredRoomsJoined == hist.rec.startFull /\ ~hist.rec.joinFailed

NothingCreated == world.nextRoom = hist.rec.startRooms /\ Ids(state) = hist.rec.startIds

C8_NoDuplicateResources ==
  \A slot \in DOMAIN hist.created : hist.created[slot] <= 1 + Count(hist.replaced, slot)

\* The calls of a successful pass over project i and the following ones,
\* when nothing is stored.
RECURSIVE FreshProjectCalls(_)
FreshProjectCalls(i) ==
  IF i > Len(config.projects) THEN <<>>
  ELSE LET key == config.projects[i]
       IN << <<"createSpace", Slot("space", key)>>,
             <<"linkRoomUnderSpace", Slot("space", key)>>,
             <<"ensureInvites", Slot("space", key)>>,
             <<"createRoom", Slot("lobby", key)>>,
             <<"linkRoomUnderSpace", Slot("lobby", key)>>,
             <<"ensureInvites", Slot("lobby", key)>>,
             <<"ensureWorkVolume", Slot("spark", key)>>,
             <<"ensureMainSpark", Slot("spark", key)>>,
             <<"ensureRepoInMainSpark", Slot("spark", key)>>,
             <<"runBootstrap", Slot("spark", key)>> >> \o FreshProjectCalls(i + 1)

\* C9: from an empty state a successful reconcile stores workspace.spaceId and
\* each project's projectSpaceId and lobbyRoomId, in memory and in the file,
\* and calls ensureWorkVolume, ensureMainSpark, ensureRepoInMainSpark and
\* runBootstrap exactly once per project, in that order, after the project's
\* chat resources; the save is the last call.
C9_ReconcileFromEmpty ==
  (pc = "init_sync" /\ hist.rec.startEmpty) =>
    /\ Full(state)
    /\ disk.exists
    /\ Ids(load(disk)) = Ids(state)
    /\ hist.rec.calls = << <<"createSpace", "workspace">> >> \o FreshProjectCalls(1)
                          \o << <<"save", "state">> >>

\* The first pass over two projects completed.
C9_Witness ==
  /\ pc = "init_sync"
  /\ hist.rec.startEmpty
  /\ Len(config.projects) = 2
  /\ Full(state)
  /\ world.nextRoom = 6

(***************************************************************************)
(* Reuse and replacement of stored chat resources (SpecReconcile).         *)
(***************************************************************************)
\* The ID a snapshot of Ids holds for a resource.
IdOf(ids, kind, key) ==
  IF kind = "workspace" THEN ids.workspace
  ELSE IF key \notin DOMAIN ids.projects THEN None
  ELSE IF kind = "space" THEN ids.projects[key][1]
  ELSE ids.projects[key][2]

Resources ==
  {<<"workspace", None, "workspace", "createSpace">>}
    \cup { <<"space", config.projects[i], Slot("space", config.projects[i]), "createSpace">> :
             i \in DOMAIN config.projects }
    \cup { <<"lobby", config.projects[i], Slot("lobby", config.projects[i]), "createRoom">> :
             i \in DOMAIN config.projects }

CallsOf(op, arg) ==
  Cardinality({i \in DOMAIN hist.rec.calls : hist.rec.calls[i] = <<op, arg>>})

\* The rooms created since the pass started.
NewRooms == {RoomId(n) : n \in hist.rec.startRooms .. world.nextRoom - 1}

\* The step creating the replacement of the resource a step was reusing.
CreateStep(step) ==
  IF step \in {"ws_join", "ws_invites"} THEN "ws_create"
  ELSE IF step \in {"p_space_join", "p_space_invites"} THEN "p_space_create"
  ELSE "p_lobby_create"

\* The call made at this step throws.
Throws == budget.faults' = budget.faults + 1

\* The project space (lobby room) the pass is working on is the stored one.
StoredSpaceInUse ==
  /\ rl.existing
  /\ rl.projectState.projectSpaceId # None
  /\ rl.projectState.projectSpaceId = IdOf(hist.rec.startIds, "space", CurrentKey)

StoredLobbyInUse ==
  /\ rl.existing
  /\ rl.projectState.lobbyRoomId # None
  /\ rl.projectState.lobbyRoomId = IdOf(hist.rec.startIds, "lobby", CurrentKey)

\* A completed pass that replaced a stored resource created one replacement
\* and stored its ID in memory and in the file.
ReplacementPersisted ==
  ReconcileDone =>
    \A r \in Resources :
      (IdOf(hist.rec.startIds, r[1], r[2]) # None /\ CallsOf(r[4], r[3]) > 0) =>
        /\ CallsOf(r[4], r[3]) = 1
        /\ IdOf(Ids(state), r[1], r[2]) \in NewRooms
        /\ IdOf(Ids(load(disk)), r[1], r[2]) = IdOf(Ids(state), r[1], r[2])

\* C33 as stated: a throwing ensureJoinedRoom or ensureInvites on a stored
\* workspace space, project space or lobby room is followed by the creation
\* of its replacement, never by the end of reconcile.
C33_Original ==
  [][ ( /\ \/ pc \in {"ws_join", "ws_invites", "p_space_join", "p_lobby_join"}
           \/ pc = "p_space_invites" /\ StoredSpaceInUse
           \/ pc = "p_lobby_invites" /\ StoredLobbyInUse
        /\ Throws )
      => pc' = CreateStep(pc) ]_vars

\* C33: a throwing ensureJoinedRoom on a stored workspace space, project space
\* or lobby room, or a throwing ensureInvites on the stored workspace space,
\* does not end reconcile: the next step creates the replacement (a stored
\* project ID is cleared first), and a pass that completes created exactly
\* one replacement whose ID is the one in memory and in the file.
C33_StoredResourceReplaced ==
  /\ [](ReplacementPersisted)
  /\ [][ (pc \in {"ws_join", "ws_invites", "p_space_join", "p_lobby_join"} /\ Throws)
         => /\ pc' = CreateStep(pc)
            /\ pc = "p_space_join" => rl.projectState.projectSpaceId' = None
            /\ pc = "p_lobby_join" => rl.projectState.lobbyRoomId' = None ]_vars

\* The second pass could not join the stored lobby room and completed with a
\* new one in the file.
C33_Witness ==
  /\ ReconcileDone
  /\ hist.rec.joinFailed
  /\ IdOf(hist.rec.startIds, "lobby", ProjectKeys[1]) # None
  /\ CallsOf("createRoom", Slot("lobby", ProjectKeys[1])) = 1
  /\ IdOf(Ids(load(disk)), "lobby", ProjectKeys[1]) \in NewRooms
  /\ IdOf(Ids(load(disk)), "lobby", ProjectKeys[1])
       # IdOf(hist.rec.startIds, "lobby", ProjectKeys[1])

(***************************************************************************)
(* The one save of reconcile (SpecReconcile).                              *)
(***************************************************************************)
\* Positions of the spark calls and of the calls creating a space or a room.
SparkSteps == {"p_volume", "p_main", "p_repo", "p_bootstrap"}

CreateSteps == {"ws_create", "p_space_create", "p_lobby_create"}

\* Positions inside a reconcile pass, after its first step.
PassSteps ==
  {"ws_join", "ws_invites", "p_begin", "p_space_join", "p_space_link", "p_space_invites",
   "p_lobby_join", "p_lobby_link", "p_lobby_invites"} \cup SparkSteps \cup CreateSteps

\* The pass is at line 112, about to call persistState.
AtSave == pc = "p_begin" /\ rl.pi > Len(config.projects)

SavesOfPass == CallsOf("save", "state")

\* A completed pass saved once, right after the last project's bootstrap.
SavedOnceAtEnd ==
  ReconcileDone =>
    /\ SavesOfPass = 1
    /\ Len(hist.rec.calls) >= 2
    /\ Last(hist.rec.calls) = <<"save", "state">>
    /\ hist.rec.calls[Len(hist.rec.calls) - 1]
         = <<"runBootstrap", Slot("spark", config.projects[Len(config.projects)])>>

\* C36 as stated: a pass that aborts has called save zero times, whichever
\* call aborted it.
C36_Original ==
  [][ (pc \in PassSteps /\ Throws /\ pc' = "down")
      => SavesOfPass + (IF AtSave THEN 1 ELSE 0) = 0 ]_vars

\* C36: a completed reconcile pass called save exactly once, as its last
\* call, after the last configured project; a pass in progress has not
\* called save, so a pass aborted by any call other than save has called it
\* zero times and left the file untouched; a throwing save is the pass's
\* only save call and aborts it.
C36_ReconcileSavesOnce ==
  /\ [](SavedOnceAtEnd)
  /\ [](pc \in PassSteps => SavesOfPass = 0)
  /\ [][ (pc \in PassSteps /\ Throws /\ pc' = "down") => disk' = disk ]_vars
  /\ [][ (pc \in PassSteps /\ ~AtSave) => disk' = disk ]_vars

\* Both passes of init-dev over two projects completed; the second one
\* saved once, after the second project.
C36_Witness ==
  /\ pc = "done"
  /\ Len(config.projects) = 2
  /\ SavesOfPass = 1
  /\ Len(hist.rec.calls) > 10
  /\ disk.exists

(***************************************************************************)
(* Properties of save (SpecSave).                                          *)
(***************************************************************************)
\* C10: save is crash-safe.  Whenever the process stops or a step of save
\* throws, the canonical file is either the complete previous snapshot (or
\* still absent) or the complete new snapshot: it is never a truncated or
\* partly written text, and what load() reads from it is one of the two states.
C10_SaveIsCrashSafe ==
  /\ disk.exists => parses(disk.text)
  /\ disk = sv.prev \/ disk = [exists |-> TRUE, text |-> sv.payload]
  /\ sv.prev.exists => disk.exists
  /\ load(disk) \in {load(sv.prev)} \cup SaveStates

\* The process stopped in the middle of writeFileSync while a complete file
\* existed, and restarted: the temp file is torn, the state loaded is that of
\* the previous snapshot.
C10_Witness ==
  /\ pc = "s_idle"
  /\ budget.runs = 2
  /\ temp.exists /\ Len(temp.text) \in 1..(PayloadLen - 1)
  /\ disk.exists /\ disk = sv.prev
  /\ disk.text # sv.payload
  /\ state = StateWithProject


(***************************************************************************)
(* The state store on its own (SpecStore): load of an arbitrary file,      *)
(* then save of a state the orchestrator produced, then load again.        *)
(***************************************************************************)
Restrict(f, keys) == [k \in keys |-> f[k]]

Document(members) == << <<"{", 0>> >> \o members \o << <<"}", 0>> >>

\* What a file can hold under "workspace": an object with a non-string
\* member and an unknown one, or something that is not an object.
WorkspaceValues ==
  { [name |-> "Coding", spaceId |-> "!r1", topic |-> "#null", owner |-> "@user"],
    NotAnObject }

\* Project entries of a file: well-formed, without displayName, with a spark
\* record lacking workVolume, not an object.
ProjectEntries ==
  [ rc |-> dropUndefined(StateWithProject.projects["rc"], ProjectOptional),
    web |-> [key |-> "web", spark |-> sparkShape("web"), updatedAt |-> toISOString(0)],
    api |-> [ key |-> "api", displayName |-> "api", lobbyRoomId |-> "",
              spark |-> [project |-> "api", base |-> "b", mainSpark |-> "m", workMountPath |-> "/work"] ],
    num |-> NotAnObject ]

WellFormedTask ==
  [ projectKey |-> "rc", lobbyRoomId |-> "!r3", lobbyEventId |-> "$e1",
    taskRoomId |-> "!r4", sparkName |-> "#0", status |-> "active",
    bridge |-> [pid |-> "#123", processId |-> "", rawOutput |-> "pid=123"],
    initialPrompt |-> <<"f", "i", "x">>,
    createdAt |-> toISOString(0), updatedAt |-> toISOString(1) ]

\* Task entries of a file: well-formed (no id, a non-string sparkName),
\* without projectKey, with an unknown status, with a bridge that is no
\* object.
TaskEntries ==
  [ t1 |-> WellFormedTask,
    t2 |-> [f \in DOMAIN WellFormedTask \ {"projectKey"} |-> WellFormedTask[f]],
    t3 |-> [WellFormedTask EXCEPT !.status = "done"],
    t4 |-> ("id" :> "task-4") @@ [WellFormedTask EXCEPT !.bridge = NotAnObject, !.status = "error"] ]

EventIndexEntries ==
  (eventKey("!r3", "$e1") :> "t1") @@ (eventKey("!r3", "$e2") :> "")
    @@ (eventKey("!r3", "$e3") :> "#123")

ObjectDocuments ==
  { Document(<< <<"version", 7>>, <<"workspace", w>>, <<"projects", Restrict(ProjectEntries, ps)>>,
                <<"tasks", Restrict(TaskEntries, ts)>>,
                <<"eventIndex", Restrict(EventIndexEntries, es)>> >>) :
      w \in WorkspaceValues, ps \in SUBSET DOMAIN ProjectEntries,
      ts \in SUBSET DOMAIN TaskEntries, es \in SUBSET DOMAIN EventIndexEntries }

\* Files with members missing or of the wrong type, texts that are valid
\* JSON but no object, an array, and torn texts.
OddDocuments ==
  { Document(<<>>),
    Document(<< <<"tasks", Restrict(TaskEntries, {"t1", "t2"})>> >>),
    Document(<< <<"projects", NotAnObject>>, <<"tasks", NotAnObject>>,
                <<"eventIndex", NotAnObject>> >>),
    << <<"null", 0>> >>, << <<"42", 0>> >>, << <<"\"text\"", 0>> >>,
    << <<"[", 0>>, <<"]", 0>> >>,
    <<>>,
    SubSeq(stringify(StateWithTask), 1, 3),
    SubSeq(stringify(StateWithTask), 1, PayloadLen - 1) }

Files == {NoFile} \cup {[exists |-> TRUE, text |-> t] : t \in ObjectDocuments \cup OddDocuments}

\* States of the orchestrator after a launch (with everything spark printed,
\* or with no pid, no process ID and empty output), after a failed pipeline,
\* and after a failure before the task existed.
StateActive ==
  [StateWithTask EXCEPT
     !.tasks[buildTaskIdentifiers("rc", <<"f", "i", "x">>, "$e1", Now(0)).taskId] =
        [@ EXCEPT !.taskRoomId = RoomId(4), !.taskRoomName = "#agent $e1",
                  !.sparkProject = "rc", !.sparkName = buildTaskIdentifiers("rc", <<"f", "i", "x">>, "$e1", Now(0)).sparkName,
                  !.status = "active",
                  !.bridge = [pid |-> "#777", processId |-> "bridge-777", rawOutput |-> "pid=777"]]]

StateActiveQuiet ==
  [StateActive EXCEPT
     !.tasks[buildTaskIdentifiers("rc", <<"f", "i", "x">>, "$e1", Now(0)).taskId].bridge =
        [pid |-> None, processId |-> None, rawOutput |-> ""]]

StateError ==
  [StateActive EXCEPT
     !.tasks[buildTaskIdentifiers("rc", <<"f", "i", "x">>, "$e1", Now(0)).taskId].status = "error",
     !.tasks[buildTaskIdentifiers("rc", <<"f", "i", "x">>, "$e1", Now(0)).taskId].statusReason = "launchBridgeInSpark failed"]

StateSentinel ==
  [StateWithProject EXCEPT !.eventIndex = Put(@, eventKey(RoomId(3), "$e2"), "failed-" \o ToString(0))]

ProducedStates ==
  SaveStates \cup {StateActive, StateActiveQuiet, StateError, StateSentinel}

InitStore ==
  /\ config \in [projects : {<<ProjectKeys[1]>>}, keepErrorRooms : {FALSE}, entry : {"orchestrator"}]
  /\ pc = "st_start"
  /\ state = createDefaultState
  /\ disk \in Files
  /\ temp = NoFile
  /\ sv = SvInit
  /\ sinceToken = NoToken
  /\ inFlightEvents = {}
  /\ rl = RlInit
  /\ hs = HsInit
  /\ pending = {}
  /\ world = [ nextRoom |-> 1, clock |-> 0, lobbies |-> {}, timeline |-> <<>>,
               notices |-> {}, left |-> {} ]
  /\ hist = HistInit
  /\ budget = [faults |-> 0, runs |-> 0, posts |-> 0]
  /\ rq = RqInit
  /\ nm = NmInit
  /\ isRunning = TRUE
  /\ br = BrInit
  /\ be = BeInit
  /\ tx = TxInit
  /\ tg = TgInit

\* The constructor of MetaOrchestrator: state = stateStore.load().
StoreLoad ==
  /\ pc = "st_start"
  /\ state' = load(disk)
  /\ pc' = "st_loaded"
  /\ UNCHANGED <<tg, tx, be, br, isRunning, nm, rq, config, disk, temp, sv, sinceToken, inFlightEvents, rl, hs, pending,
                 world, hist, budget>>

\* persistState: the state in memory (the loaded one, or one the orchestrator
\* went on to produce) is saved.
StoreSave ==
  /\ pc = "st_loaded"
  /\ \E s \in ProducedStates \cup {state} :
       /\ state' = s
       /\ disk' = saved(s)
       /\ hist' = [hist EXCEPT !.stored = s]
  /\ pc' = "st_saved"
  /\ UNCHANGED <<tg, tx, be, br, isRunning, nm, rq, config, temp, sv, sinceToken, inFlightEvents, rl, hs, pending, world,
                 budget>>

\* The next process start loads the file again.
StoreReload ==
  /\ pc = "st_saved"
  /\ state' = load(disk)
  /\ pc' = "st_reloaded"
  /\ UNCHANGED <<tg, tx, be, br, isRunning, nm, rq, config, disk, temp, sv, sinceToken, inFlightEvents, rl, hs, pending,
                 world, hist, budget>>

NextStore == StoreLoad \/ StoreSave \/ StoreReload

SpecStore == InitStore /\ [][NextStore]_vars

(***************************************************************************)
(* Properties of the state store (SpecStore).                              *)
(***************************************************************************)
\* What the file holds under a member name, when its text is an object.
Raw(name) ==
  IF disk.exists /\ parses(disk.text) /\ name \in DOMAIN parse(disk.text)
       /\ isObject(parse(disk.text)[name])
  THEN parse(disk.text)[name] ELSE <<>>

HasText(e, f) == f \in DOMAIN e /\ e[f] # "" /\ e[f] \notin JsonNonStrings

\* The required fields of the load contract.
CompleteTask(e) ==
  /\ isObject(e)
  /\ \A f \in {"projectKey", "lobbyRoomId", "lobbyEventId", "createdAt", "updatedAt"} :
       HasText(e, f)
  /\ "status" \in DOMAIN e
  /\ e.status \in {"waiting", "active", "needs_input", "completed", "error"}
  /\ "initialPrompt" \in DOMAIN e /\ e.initialPrompt # <<>>

CompleteProject(e) ==
  /\ isObject(e)
  /\ HasText(e, "displayName")
  /\ "spark" \in DOMAIN e /\ isObject(e.spark)
  /\ \A f \in {"project", "base", "mainSpark", "workVolume", "workMountPath"} :
       HasText(e.spark, f)

\* C11: load never fails.  An absent file, a text that does not parse and a
\* JSON text that is no object give the default state; of an object, the
\* task and project records lacking a required field are dropped, and every
\* complete record and every event-index entry with a non-empty string
\* value is kept with its required fields as they are in the file.
C11_LoadNeverFails ==
  pc = "st_loaded" =>
    /\ state.version = CURRENT_VERSION
    /\ (~disk.exists \/ ~parses(disk.text) \/ disk.text[1][1] # "{") =>
          state = createDefaultState
    /\ DOMAIN state.tasks = {k \in DOMAIN Raw("tasks") : CompleteTask(Raw("tasks")[k])}
    /\ \A k \in DOMAIN state.tasks :
          \A f \in {"projectKey", "lobbyRoomId", "lobbyEventId", "status", "initialPrompt",
                     "createdAt", "updatedAt"} :
            state.tasks[k][f] = Raw("tasks")[k][f]
    /\ DOMAIN state.projects =
          {k \in DOMAIN Raw("projects") : CompleteProject(Raw("projects")[k])}
    /\ \A k \in DOMAIN state.projects :
          /\ state.projects[k].displayName = Raw("projects")[k].displayName
          /\ state.projects[k].spark = Raw("projects")[k].spark
    /\ DOMAIN state.eventIndex =
          {k \in DOMAIN Raw("eventIndex") :
             Raw("eventIndex")[k] # "" /\ Raw("eventIndex")[k] \notin JsonNonStrings}
    /\ \A k \in DOMAIN state.eventIndex : state.eventIndex[k] = Raw("eventIndex")[k]

\* A file with a complete task next to three incomplete ones, a complete
\* project next to three incomplete ones and all three index entries was
\* loaded: one task, one project and one index entry are kept.
C11_Witness ==
  /\ pc = "st_loaded"
  /\ DOMAIN Raw("tasks") = {"t1", "t2", "t3", "t4"}
  /\ DOMAIN Raw("projects") = {"rc", "web", "api", "num"}
  /\ DOMAIN Raw("eventIndex") = DOMAIN EventIndexEntries
  /\ DOMAIN state.tasks = {"t1", "t4"}
  /\ DOMAIN state.projects = {"rc"}
  /\ DOMAIN state.eventIndex = {eventKey("!r3", "$e1")}

\* C12: save(s) followed by load() returns sanitize(s) for every state s the
\* orchestrator saves; workspace.spaceId, the tasks with their bridge pid
\* and every eventIndex entry are those of s.
C12_RoundTrip ==
  pc = "st_reloaded" =>
    /\ state = sanitize(hist.stored)
    /\ state.workspace.spaceId = hist.stored.workspace.spaceId
    /\ DOMAIN state.tasks = DOMAIN hist.stored.tasks
    /\ \A k \in DOMAIN state.tasks :
          state.tasks[k].bridge.pid = hist.stored.tasks[k].bridge.pid
    /\ state.eventIndex = hist.stored.eventIndex

\* The state with the launched task was saved and loaded back with its pid.
C12_Witness ==
  /\ pc = "st_reloaded"
  /\ hist.stored = StateActive
  /\ \E k \in DOMAIN state.tasks : state.tasks[k].bridge.pid = "#777"
  /\ eventKey(RoomId(3), "$e1") \in DOMAIN state.eventIndex

\* C13: the sanitizer is idempotent: applied to the state load built from
\* any file, it returns that state.
C13_SanitizeIdempotent ==
  pc \in {"st_loaded", "st_reloaded"} => sanitize(state) = state

\* A file from which load dropped records and members was loaded.
C13_Witness ==
  /\ pc = "st_loaded"
  /\ DOMAIN state.tasks = {"t1"}
  /\ DOMAIN Raw("tasks") = {"t1", "t2", "t3"}
  /\ state.workspace.spaceId = "!r1"
  /\ state.workspace.topic = None
  /\ DOMAIN state.eventIndex # {}


(***************************************************************************)
(* The chat client on its own (SpecRequest): verifyConnection and the      *)
(* request loop under it, one fetch and one sleep at a time.               *)
(***************************************************************************)
maxAttempts == 5

\* Math.round of a value given in tenths of a millisecond.
Round(tenths) == (tenths + 5) \div 10

Max(a, b) == IF a > b THEN a ELSE b

\* A response of the homeserver: the status, for a 429 whether the body is
\* JSON with a finite number under retry_after_ms and that number in tenths
\* of a millisecond, and for a whoami 200 the user_id of the body ("" when
\* the member is missing).
Response(status, numeric, tenths, userId) ==
  [status |-> status, numeric |-> numeric, tenths |-> tenths, user_id |-> userId]

Responses(endpoint) ==
  {Response(200, FALSE, 0, u) :
     u \in IF endpoint = "whoami" THEN {botUserId, "@other:hs", ""} ELSE {""}}
    \cup {Response(429, FALSE, 0, "")}
    \cup {Response(429, TRUE, t, "") : t \in {0 - 50, 2000, 3000, 3004, 3005, 90000}}
    \cup {Response(500, FALSE, 0, ""), Response(403, FALSE, 0, "")}

ok(response) == response.status \in 200..299

\* Variant: the server's value is used as it is, and the fallback is fixed.
extractRetryAfterMsUnclamped(body, attempt) ==
  IF body.numeric THEN Round(body.tenths) ELSE 500

extractRetryAfterMs(body, attempt) ==
  IF body.numeric THEN Max(250, Round(body.tenths)) ELSE Min(8000, 500 * attempt)

StartRequest(endpoint) ==
  [ endpoint |-> endpoint, attempt |-> 1, received |-> <<>>, sleeps |-> <<>>,
    outcome |-> "pending", result |-> None ]

InitRequest ==
  /\ config \in [projects : {<<ProjectKeys[1]>>}, keepErrorRooms : {FALSE}, entry : {"orchestrator"}]
  /\ pc = "vc_start"
  /\ state = createDefaultState
  /\ disk = NoFile
  /\ temp = NoFile
  /\ sv = SvInit
  /\ sinceToken = NoToken
  /\ inFlightEvents = {}
  /\ rl = RlInit
  /\ hs = HsInit
  /\ pending = {}
  /\ world = [ nextRoom |-> 1, clock |-> 0, lobbies |-> {}, timeline |-> <<>>,
               notices |-> {}, left |-> {} ]
  /\ hist = HistInit
  /\ budget = [faults |-> 0, runs |-> 0, posts |-> 0]
  /\ rq = RqInit
  /\ nm = NmInit
  /\ isRunning = TRUE
  /\ br = BrInit
  /\ be = BeInit
  /\ tx = TxInit
  /\ tg = TgInit

\* verifyConnection: the unauthenticated versions probe.
VerifyConnectionBegin ==
  /\ pc = "vc_start"
  /\ rq' = StartRequest("versions")
  /\ pc' = "rq_fetch"
  /\ UNCHANGED <<tg, tx, be, br, isRunning, nm, config, state, disk, temp, sv, sinceToken, inFlightEvents, rl, hs,
                 pending, world, hist, budget>>

\* Variant: every failed attempt but the last is retried.
RequestFetchRetriesAll ==
  /\ pc = "rq_fetch"
  /\ \E response \in Responses(rq.endpoint) :
       LET got == [rq EXCEPT !.received = Append(@, response)] IN
       IF ok(response)
       THEN /\ rq' = [got EXCEPT !.outcome = "returned", !.result = response.user_id]
            /\ pc' = "rq_returned"
       ELSE IF rq.attempt < maxAttempts
       THEN /\ rq' = [got EXCEPT !.sleeps = Append(@, extractRetryAfterMs(response, rq.attempt))]
            /\ pc' = "rq_sleep"
       ELSE /\ rq' = [got EXCEPT !.outcome = "thrown"]
            /\ pc' = "rq_thrown"
  /\ UNCHANGED <<tg, tx, be, br, isRunning, nm, config, state, disk, temp, sv, sinceToken, inFlightEvents, rl, hs,
                 pending, world, hist, budget>>

\* One pass of the loop of request: fetch, then return on a 2xx, sleep on a
\* 429 before the last attempt, throw otherwise.
RequestFetch ==
  /\ pc = "rq_fetch"
  /\ rq.attempt <= maxAttempts
  /\ \E response \in Responses(rq.endpoint) :
       LET got == [rq EXCEPT !.received = Append(@, response)] IN
       IF ok(response)
       THEN /\ rq' = [got EXCEPT !.outcome = "returned", !.result = response.user_id]
            /\ pc' = "rq_returned"
       ELSE IF response.status = 429 /\ rq.attempt < maxAttempts
       THEN /\ rq' = [got EXCEPT !.sleeps = Append(@, extractRetryAfterMs(response, rq.attempt))]
            /\ pc' = "rq_sleep"
       ELSE /\ rq' = [got EXCEPT !.outcome = "thrown"]
            /\ pc' = "rq_thrown"
  /\ UNCHANGED <<tg, tx, be, br, isRunning, nm, config, state, disk, temp, sv, sinceToken, inFlightEvents, rl, hs,
                 pending, world, hist, budget>>

\* The sleep ends: continue with the next attempt.
RequestSleep ==
  /\ pc = "rq_sleep"
  /\ rq' = [rq EXCEPT !.attempt = @ + 1]
  /\ pc' = "rq_fetch"
  /\ UNCHANGED <<tg, tx, be, br, isRunning, nm, config, state, disk, temp, sv, sinceToken, inFlightEvents, rl, hs,
                 pending, world, hist, budget>>

\* verifyConnection: the versions probe returned, whoami is requested.
VerifyConnectionWhoami ==
  /\ pc = "rq_returned"
  /\ rq.endpoint = "versions"
  /\ rq' = StartRequest("whoami")
  /\ pc' = "rq_fetch"
  /\ UNCHANGED <<tg, tx, be, br, isRunning, nm, config, state, disk, temp, sv, sinceToken, inFlightEvents, rl, hs,
                 pending, world, hist, budget>>

\* verifyConnection: whoami returned; a response without user_id throws.
VerifyConnectionCheck ==
  /\ pc = "rq_returned"
  /\ rq.endpoint = "whoami"
  /\ pc' = IF rq.result = "" THEN "vc_thrown" ELSE "vc_returned"
  /\ UNCHANGED <<tg, tx, be, br, isRunning, nm, config, state, disk, temp, sv, sinceToken, inFlightEvents, rl, hs,
                 pending, world, hist, budget, rq>>

\* The error of request leaves verifyConnection and initialize.
VerifyConnectionThrows ==
  /\ pc = "rq_thrown"
  /\ pc' = "vc_thrown"
  /\ UNCHANGED <<tg, tx, be, br, isRunning, nm, config, state, disk, temp, sv, sinceToken, inFlightEvents, rl, hs,
                 pending, world, hist, budget, rq>>

\* initialize goes on with spark.verifyAvailability and reconcile.
InitializeProceeds ==
  /\ pc = "vc_returned"
  /\ pc' = "init_spark"
  /\ UNCHANGED <<tg, tx, be, br, isRunning, nm, config, state, disk, temp, sv, sinceToken, inFlightEvents, rl, hs,
                 pending, world, hist, budget, rq>>

NextRequest ==
  \/ VerifyConnectionBegin
  \/ RequestFetch
  \/ RequestSleep
  \/ VerifyConnectionWhoami
  \/ VerifyConnectionCheck
  \/ VerifyConnectionThrows
  \/ InitializeProceeds

SpecRequest == InitRequest /\ [][NextRequest]_vars

(***************************************************************************)
(* Properties of the chat client (SpecRequest).                            *)
(***************************************************************************)
Attempts == Len(rq.received)

\* C14: a chat HTTP call makes at most 5 attempts; an attempt after the
\* first is made only when every earlier attempt returned 429; any other
\* response that is not 2xx, and a 429 on the fifth attempt, fails the call
\* at once, without a sleep and without a further attempt.
C14_AtMostFiveAttempts ==
  rq.outcome # "none" =>
    /\ Attempts <= 5
    /\ rq.attempt <= 5
    /\ \A i \in 1..Attempts : i < Attempts => rq.received[i].status = 429
    /\ \A i \in 1..(rq.attempt - 1) : rq.received[i].status = 429
    /\ (Attempts > 0 /\ ~ok(Last(rq.received))
          /\ (Last(rq.received).status # 429 \/ Attempts = 5)) =>
         /\ rq.outcome = "thrown"
         /\ Len(rq.sleeps) = Attempts - 1
    /\ rq.outcome = "thrown" => ~ok(Last(rq.received))
    /\ rq.outcome = "returned" => ok(Last(rq.received))

\* Four 429 and then a fifth one: the call has failed on its fifth attempt.
C14_Witness ==
  /\ rq.outcome = "thrown"
  /\ Attempts = 5
  /\ Last(rq.received).status = 429
  /\ Len(rq.sleeps) = 4

\* C15: before each retry after a 429 the client sleeps exactly once, for
\* max(250 ms, retry_after_ms) in whole milliseconds when the body carries a
\* number under retry_after_ms, otherwise for min(8000 ms, 500 ms x attempt);
\* a 429 with retry_after_ms = 300 followed by a 200 gives exactly one sleep,
\* of at least 300 ms, and the call returns on the second attempt.
C15_SleepBeforeRetry ==
  rq.outcome # "none" =>
    /\ Len(rq.sleeps) = (IF pc = "rq_sleep" THEN rq.attempt ELSE rq.attempt - 1)
    /\ \A i \in 1..Len(rq.sleeps) :
         /\ rq.received[i].status = 429
         /\ rq.received[i].numeric =>
              /\ rq.sleeps[i] >= 250
              /\ rq.sleeps[i] * 10 >= rq.received[i].tenths - 5
              /\ rq.sleeps[i] * 10 <= Max(2500, rq.received[i].tenths + 5)
              /\ rq.received[i].tenths % 10 = 0 =>
                   rq.sleeps[i] = Max(250, rq.received[i].tenths \div 10)
         /\ ~rq.received[i].numeric =>
              rq.sleeps[i] = (IF 500 * i < 8000 THEN 500 * i ELSE 8000)
    /\ (Attempts = 2 /\ rq.received[1] = Response(429, TRUE, 3000, "") /\ ok(rq.received[2])) =>
         /\ rq.outcome = "returned"
         /\ Len(rq.sleeps) = 1
         /\ rq.sleeps[1] >= 300

\* A 429 with retry_after_ms = 300, then a 200: one sleep of 300 ms.
C15_Witness ==
  /\ rq.outcome = "returned"
  /\ Attempts = 2
  /\ rq.received[1] = Response(429, TRUE, 3000, "")
  /\ rq.sleeps = <<300>>

\* C16: verifyConnection returns, and initialize proceeds, only when whoami
\* answered with the bot's own user ID.
C16_WhoamiIsBot ==
  pc \in {"vc_returned", "init_spark"} => rq.result = botUserId


(***************************************************************************)
(* slugify and buildTaskIdentifiers on their own (SpecNaming): the slug of *)
(* an input, then the identifiers derived twice with time passing between. *)
(***************************************************************************)
MaxInputLen == 4    \* characters of an enumerated input string
MaxSlugLen == 4     \* largest enumerated maxLen (24 is always included)

\* A lower-case letter, an upper-case letter, a digit, a dash and a
\* character outside [A-Za-z0-9-].
Alphabet == {"a", "Z", "7", "-", "!"}

RECURSIVE StringsUpTo(_)
StringsUpTo(n) ==
  IF n = 0 THEN {<<>>}
  ELSE StringsUpTo(n - 1)
         \cup {Append(w, c) : w \in {v \in StringsUpTo(n - 1) : Len(v) = n - 1}, c \in Alphabet}

\* Prompts longer than the 24 characters kept of a slug.
LongPrompts ==
  { [i \in 1..30 |-> IF i % 6 = 0 THEN "!" ELSE "a"],
    [i \in 1..40 |-> IF i \in {24, 25} THEN "!" ELSE "Z"],
    [i \in 1..60 |-> "7"] }

Prompts == StringsUpTo(MaxInputLen) \cup LongPrompts

Dates ==
  { [year |-> 2026, month |-> 2, day |-> 8, hour |-> 19, minute |-> 0, second |-> 1],
    [year |-> 1999, month |-> 12, day |-> 31, hour |-> 23, minute |-> 59, second |-> 59] }

InitNaming ==
  /\ config \in [projects : {<<ProjectKeys[1]>>}, keepErrorRooms : {FALSE}, entry : {"orchestrator"}]
  /\ pc = "nm_start"
  /\ state = createDefaultState
  /\ disk = NoFile
  /\ temp = NoFile
  /\ sv = SvInit
  /\ sinceToken = NoToken
  /\ inFlightEvents = {}
  /\ rl = RlInit
  /\ hs = HsInit
  /\ pending = {}
  /\ world = [ nextRoom |-> 1, clock |-> 0, lobbies |-> {}, timeline |-> <<>>,
               notices |-> {}, left |-> {} ]
  /\ hist = HistInit
  /\ budget = [faults |-> 0, runs |-> 0, posts |-> 0]
  /\ rq = RqInit
  /\ isRunning = TRUE
  /\ br = BrInit
  /\ be = BeInit
  /\ tx = TxInit
  /\ tg = TgInit
  /\ \E raw \in Prompts, maxLen \in (1..MaxSlugLen) \cup {24}, eventId \in {"$e1", "$e2"},
        hasNow \in BOOLEAN, now \in Dates :
       /\ hasNow \/ now = Now(1)
       /\ nm = [NmInit EXCEPT !.raw = raw, !.maxLen = maxLen, !.projectKey = ProjectKeys[1],
                              !.eventId = eventId, !.hasNow = hasNow, !.now = now]

\* slugify(raw, "task", maxLen)
NamingSlugify ==
  /\ pc = "nm_start"
  /\ nm' = [nm EXCEPT !.slug = slugify(nm.raw, Fallback, nm.maxLen)]
  /\ pc' = "nm_slug"
  /\ UNCHANGED <<tg, tx, be, br, isRunning, config, state, disk, temp, sv, sinceToken, inFlightEvents, rl, hs,
                 pending, world, hist, budget, rq>>

\* options.now ?? new Date()
NowOr(options) == IF options.hasNow THEN options.now ELSE Now(world.clock)

\* buildTaskIdentifiers({projectKey, prompt, lobbyEventId, now})
NamingBuildFirst ==
  /\ pc = "nm_slug"
  /\ nm' = [nm EXCEPT !.first = taskIdentifiers(nm.projectKey, nm.raw, nm.eventId, NowOr(nm))]
  /\ pc' = "nm_first"
  /\ UNCHANGED <<tg, tx, be, br, isRunning, config, state, disk, temp, sv, sinceToken, inFlightEvents, rl, hs,
                 pending, world, hist, budget, rq>>

\* A second passes.
NamingTick ==
  /\ pc = "nm_first"
  /\ world.clock < MaxClock
  /\ world' = [world EXCEPT !.clock = @ + 1]
  /\ UNCHANGED <<tg, tx, be, br, isRunning, config, pc, state, disk, temp, sv, sinceToken, inFlightEvents, rl, hs,
                 pending, hist, budget, rq, nm>>

\* buildTaskIdentifiers called again with the same options.
NamingBuildSecond ==
  /\ pc = "nm_first"
  /\ nm' = [nm EXCEPT !.second = taskIdentifiers(nm.projectKey, nm.raw, nm.eventId, NowOr(nm))]
  /\ pc' = "nm_second"
  /\ UNCHANGED <<tg, tx, be, br, isRunning, config, state, disk, temp, sv, sinceToken, inFlightEvents, rl, hs,
                 pending, world, hist, budget, rq>>

NextNaming == NamingSlugify \/ NamingBuildFirst \/ NamingTick \/ NamingBuildSecond

SpecNaming == InitNaming /\ [][NextNaming]_vars

(***************************************************************************)
(* Properties of the identifiers (SpecNaming).                             *)
(***************************************************************************)
SlugChars == LowerChars \cup Range(DigitChars) \cup {"-"}

\* Non-empty, only [a-z0-9-], no '-' at either end, no '--'.
WellFormedSlug(s) ==
  /\ s # <<>>
  /\ \A i \in 1..Len(s) : s[i] \in SlugChars
  /\ s[1] # "-"
  /\ s[Len(s)] # "-"
  /\ \A i \in 1..(Len(s) - 1) : ~(s[i] = "-" /\ s[i + 1] = "-")

\* ^task-\d{14}-[a-z0-9-]+-[0-9a-f]{6}$
WellFormedSparkName(s) ==
  /\ Len(s) >= 28
  /\ SubSeq(s, 1, 5) = <<"t", "a", "s", "k", "-">>
  /\ \A i \in 6..19 : s[i] \in Range(DigitChars)
  /\ s[20] = "-"
  /\ \A i \in 21..(Len(s) - 7) : s[i] \in SlugChars
  /\ s[Len(s) - 6] = "-"
  /\ \A i \in (Len(s) - 5)..Len(s) : s[i] \in HexChars

C25_Original ==
  pc # "nm_start" => (WellFormedSlug(nm.slug) /\ Len(nm.slug) <= nm.maxLen)

\* C25: for every input and every maxLen >= 1 the slug is non-empty, holds
\* only [a-z0-9-], has no '-' at either end and no '--'; it has at most
\* maxLen characters unless it is the fallback "task", returned when the
\* input holds no letter or digit.
C25_SlugifySafe ==
  pc # "nm_start" =>
    /\ WellFormedSlug(nm.slug)
    /\ \/ Len(nm.slug) <= nm.maxLen
       \/ /\ nm.slug = Fallback
          /\ \A i \in 1..Len(nm.raw) : ~isAlnum(toLowerCase(nm.raw)[i])

\* "Z!!7" cut at 2: "z-" loses its trailing dash.
C25_Witness ==
  /\ pc = "nm_slug"
  /\ nm.raw = <<"Z", "!", "!", "7">>
  /\ nm.maxLen = 2
  /\ nm.slug = <<"z">>


(***************************************************************************)
(* Shutdown of runLoop (SpecLoop): one process, a signal at any moment.    *)
(***************************************************************************)

\* main, lines 14-22: the first SIGINT or SIGTERM clears isRunning.
Signal ==
  /\ pc \notin {"down", "stopped"}
  /\ isRunning
  /\ isRunning' = FALSE
  /\ hist' = [hist EXCEPT !.signalAt = pc]
  /\ UNCHANGED <<tg, tx, be, br, config, pc, state, disk, temp, sv, sinceToken, inFlightEvents, rl, hs,
                 pending, world, budget, rq, nm>>

\* runLoop, line 86: shouldContinue() is false, the loop ends and main returns.
RunLoopReturns ==
  /\ pc = "loop"
  /\ ~ isRunning
  /\ pc' = "stopped"
  /\ UNCHANGED <<tg, tx, be, br, isRunning, nm, rq, config, state, disk, temp, sv, sinceToken, inFlightEvents,
                 rl, hs, pending, world, hist, budget>>

\* The steps of the orchestrator process itself, SpawnTask apart.
Program ==
  \/ Boot \/ Verify \/ ReconcileBegin
  \/ WorkspaceCreate
  \/ ProjectBegin \/ ProjectSpaceCreate \/ ProjectSpaceLink
  \/ ProjectSpaceInvites \/ LobbyCreate \/ LobbyLink \/ LobbyInvites
  \/ EnsureWorkVolume \/ EnsureMainSpark \/ EnsureRepoInMainSpark \/ RunBootstrap
  \/ ReconcileSave \/ InitialSync
  \/ LoopSync \/ HandleSyncReturns \/ IgnoreEvent \/ DropDuplicate
  \/ CreateTaskRoom \/ LinkTaskRoom \/ SendStatusNotice \/ SendPromptNotice
  \/ CreateTaskSparkFork \/ LaunchBridgeInSpark \/ SendTaskCreated \/ SaveSpawned
  \/ Finally \/ SettleFailureNotice \/ SettleLeaveAndForget
  \/ RunLoopReturns

NextLoop == Program \/ SpawnTask \/ PostEvent \/ Tick \/ Signal

\* One process start; one event fewer than MaxPosts is delivered.
InitLoop ==
  /\ config \in [ projects : {<<ProjectKeys[1]>>}, keepErrorRooms : {FALSE},
                  entry : {"orchestrator"} ]
  /\ pc = "down"
  /\ state = createDefaultState
  /\ disk = NoFile
  /\ temp = NoFile
  /\ sv = SvInit
  /\ sinceToken = NoToken
  /\ inFlightEvents = {}
  /\ rl = RlInit
  /\ hs = HsInit
  /\ pending = {}
  /\ world = [ nextRoom |-> 1, clock |-> 0, lobbies |-> {}, timeline |-> <<>>,
               notices |-> {}, left |-> {} ]
  /\ hist = HistInit
  /\ budget = [faults |-> 0, runs |-> MaxRuns - 1, posts |-> MaxPosts - 1]
  /\ rq = RqInit
  /\ nm = NmInit
  /\ isRunning = TRUE
  /\ br = BrInit
  /\ be = BeInit
  /\ tx = TxInit
  /\ tg = TgInit

\* Every call the process awaits returns, so the process keeps taking steps.
\* (the fairness of SpawnTask is written with its guard).
SpecLoop ==
  /\ InitLoop /\ [][NextLoop]_vars
  /\ WF_vars(Program)
  /\ ([]<>(~ SpawnTaskReady) \/ []<><<SpawnTask>>_vars)


\* Positions of the timeline that the syncs of runLoop have returned so far.
Returned ==
  { i \in (hist.startToken + 1)..sinceToken : world.timeline[i].roomId \in getLobbyRoomIds }

\* runLoop has returned with nothing left over: no queued event, no event in
\* flight, and every event of the batches it received has been handled.
BatchFinished ==
  /\ hs.queue = <<>>
  /\ inFlightEvents = {}
  /\ hist.startToken # NoToken => \A i \in Returned : KeyAt(i) \in Handled

\* A step that starts a sync of runLoop, answered or failed.
StartsSync ==
  /\ pc = "loop"
  /\ \/ pc' = "handleSync"
     \/ budget'.faults # budget.faults
     \/ hs' # hs

\* C27: runLoop reads shouldContinue before every sync and starts none once
\* it is false; the signal that clears the flag changes nothing else, so the
\* pipeline in flight goes on; and when the calls in flight return, runLoop
\* returns (or the process has ended) with the current batch handled.
C27_RunLoopStopsAfterBatch ==
  /\ [](pc = "stopped" => BatchFinished)
  /\ [][StartsSync => isRunning]_vars
  /\ [][isRunning /\ ~ isRunning' =>
          /\ pc' = pc /\ state' = state /\ hs' = hs /\ disk' = disk
          /\ inFlightEvents' = inFlightEvents /\ pending' = pending]_vars
  /\ (~ isRunning) ~> (pc \in {"stopped", "down"})

\* The signal arrived while the fork of a task was awaited; the task became
\* active and then runLoop returned.
C27_Witness ==
  /\ pc = "stopped"
  /\ hist.signalAt = "t_fork"
  /\ \E id \in DOMAIN state.tasks : state.tasks[id].status = "active"


(***************************************************************************)
(* The AgentBridge of one task room (SpecBridge).                          *)
(***************************************************************************)

MaxTexts == 3       \* messages posted to the task room

\* Message bodies posted to the task room.
Texts ==
  { <<"/", "s", "t", "o", "p">>,
    <<" ", "/", "s", "t", "o", "p", " ">>,
    <<"/", "R", "u", "n", " ", "f">>,
    <<"/", "r", "u", "n">>,
    <<"f", "i", "x">>,
    <<"/", "n", "e", "w">>,
    <<"/", "x">>,
    <<" ">> }

\* commands.ts, line 29: /^\/run(?:\s|$)/i
matchesRun(text) ==
  /\ Len(text) >= 4
  /\ toLowerCase(SubSeq(text, 1, 4)) = <<"/", "r", "u", "n">>
  /\ Len(text) = 4 \/ IsSpace(text[5])

parseBridgeCommand(input) ==
  LET text == trim(input)
      lowered == toLowerCase(text)
      command(type, prompt) == [type |-> type, prompt |-> prompt]
  IN  IF lowered \in {<<"/", "s", "t", "a", "r", "t">>, <<"/", "h", "e", "l", "p">>}
        THEN command("help", <<>>)
      ELSE IF lowered = <<"/", "n", "e", "w">> THEN command("new", <<>>)
      ELSE IF lowered = <<"/", "s", "t", "a", "t", "u", "s">> THEN command("status", <<>>)
      ELSE IF lowered = <<"/", "s", "t", "o", "p">> THEN command("stop", <<>>)
      ELSE IF matchesRun(text) THEN command("run", trim(SubSeq(text, 5, Len(text))))
      ELSE IF text # <<>> /\ Head(text) = "/" THEN command("unknown", text)
      ELSE command("run", text)

\* startOrReplaceRun, lines 235-240: runPrompt starts, activeRun is set, done is awaited.
StartRun(b, from) ==
  [b EXCEPT !.runs = @ + 1,
            !.activeRun = b.runs + 1,
            !.run = [id |-> b.runs + 1, state |-> "streaming", aborted |-> FALSE],
            !.pc = "await_done",
            !.from = from]

\* startOrReplaceRun, lines 224-233: an active run is aborted and awaited first.
startOrReplaceRun(b, from) ==
  IF b.activeRun # 0
    THEN [b EXCEPT !.run.aborted = TRUE, !.pc = "await_prev", !.from = from]
    ELSE StartRun(b, from)

\* main, lines 82-100: the zero-timeout sync, then the initial prompt if any.
BridgeMain ==
  /\ br.pc = "down"
  /\ \E initialPrompt \in {<<>>, <<" ">>, <<"f", "i", "x">>} :
       LET synced == [br EXCEPT !.sinceToken = Len(br.timeline), !.pc = "sync"]
       IN  br' = IF trim(initialPrompt) # <<>> THEN StartRun(synced, "initial") ELSE synced
  /\ UNCHANGED <<tg, tx, be, isRunning, nm, rq, config, pc, state, disk, temp, sv, sinceToken,
                 inFlightEvents, rl, hs, pending, world, hist, budget>>

\* A user posts a message to the task room; the run active at that moment is noted.
BridgePost ==
  /\ Len(br.timeline) < MaxTexts
  /\ \E text \in Texts :
       br' = [br EXCEPT !.timeline = Append(@, [text |-> text, during |-> br.activeRun])]
  /\ UNCHANGED <<tg, tx, be, isRunning, nm, rq, config, pc, state, disk, temp, sv, sinceToken,
                 inFlightEvents, rl, hs, pending, world, hist, budget>>

\* main, lines 102-105: the sync of the loop returns the events after the token.
BridgeSync ==
  /\ br.pc = "sync"
  /\ br' = [br EXCEPT !.queue = [i \in 1..(Len(br.timeline) - br.sinceToken) |->
                                   br.sinceToken + i],
                      !.next_batch = Len(br.timeline),
                      !.pc = "handle"]
  /\ UNCHANGED <<tg, tx, be, isRunning, nm, rq, config, pc, state, disk, temp, sv, sinceToken,
                 inFlightEvents, rl, hs, pending, world, hist, budget>>

\* handleSync / handleEvent / handleIncomingText for the next event of the batch.
BridgeHandleEvent ==
  /\ br.pc = "handle"
  /\ br.queue # <<>>
  /\ LET pos == Head(br.queue)
         body == trim(br.timeline[pos].text)
         command == parseBridgeCommand(body)
         rest == [br EXCEPT !.queue = Tail(@)]
     IN  br' = IF body = <<>> THEN rest
               ELSE IF command.type = "stop"
                 THEN [rest EXCEPT !.handled = (pos :> br.activeRun) @@ @,
                                   !.run.aborted = @ \/ br.activeRun # 0,
                                   !.lastNotice = IF br.activeRun = 0
                                                    THEN "No active run to stop."
                                                    ELSE "status: needs_input"]
               ELSE IF command.type = "run" /\ command.prompt # <<>>
                 THEN startOrReplaceRun(rest, "event")
               ELSE [rest EXCEPT !.lastNotice = command.type]
  /\ UNCHANGED <<tg, tx, be, isRunning, nm, rq, config, pc, state, disk, temp, sv, sinceToken,
                 inFlightEvents, rl, hs, pending, world, hist, budget>>

\* main, line 106: handleSync returned, the token advances.
BridgeHandleSyncReturns ==
  /\ br.pc = "handle"
  /\ br.queue = <<>>
  /\ br' = [br EXCEPT !.sinceToken = br.next_batch, !.pc = "sync"]
  /\ UNCHANGED <<tg, tx, be, isRunning, nm, rq, config, pc, state, disk, temp, sv, sinceToken,
                 inFlightEvents, rl, hs, pending, world, hist, budget>>

\* runPrompt, lines 260-336: the turn completes or fails, or the abort signal
\* ends it with status needs_input, "Run interrupted.".
RunPromptEnds ==
  /\ br.run.state = "streaming"
  /\ \E outcome \in {"completed", "error"} :
       LET status == IF br.run.aborted THEN "needs_input" ELSE outcome
       IN  br' = [br EXCEPT !.run.state = "done",
                            !.ended = (br.run.id :> status) @@ @,
                            !.lastNotice = "status: " \o status]
  /\ UNCHANGED <<tg, tx, be, isRunning, nm, rq, config, pc, state, disk, temp, sv, sinceToken,
                 inFlightEvents, rl, hs, pending, world, hist, budget>>

\* startOrReplaceRun resumes when the awaited run is done: lines 228-237 for
\* the replaced run, lines 240-245 for its own run.
StartOrReplaceRunResumes ==
  /\ br.pc \in {"await_prev", "await_done"}
  /\ br.run.state = "done"
  /\ br' = IF br.pc = "await_prev"
             THEN StartRun([br EXCEPT !.lastNotice = "Previous run interrupted."], br.from)
             ELSE [br EXCEPT !.activeRun = 0,
                             !.pc = IF br.from = "initial" THEN "sync" ELSE "handle"]
  /\ UNCHANGED <<tg, tx, be, isRunning, nm, rq, config, pc, state, disk, temp, sv, sinceToken,
                 inFlightEvents, rl, hs, pending, world, hist, budget>>

NextBridge ==
  \/ BridgeMain \/ BridgePost \/ BridgeSync \/ BridgeHandleEvent
  \/ BridgeHandleSyncReturns \/ RunPromptEnds \/ StartOrReplaceRunResumes

SpecBridge == Init /\ [][NextBridge]_vars

BridgeHandlesBetweenRuns == br.pc = "handle" => br.activeRun = 0


(***************************************************************************)
(* handleSync over two lobbies (SpecOrder): one process, two projects.     *)
(***************************************************************************)

\* One process start with both projects configured; the clock stands still.
InitOrder ==
  /\ config \in [ projects : {ProjectKeys}, keepErrorRooms : {FALSE},
                  entry : {"orchestrator"} ]
  /\ pc = "down"
  /\ state = createDefaultState
  /\ disk = NoFile
  /\ temp = NoFile
  /\ sv = SvInit
  /\ sinceToken = NoToken
  /\ inFlightEvents = {}
  /\ rl = RlInit
  /\ hs = HsInit
  /\ pending = {}
  /\ world = [ nextRoom |-> 1, clock |-> MaxClock, lobbies |-> {}, timeline |-> <<>>,
               notices |-> {}, left |-> {} ]
  /\ hist = HistInit
  /\ budget = [faults |-> 0, runs |-> MaxRuns - 1, posts |-> 0]
  /\ rq = RqInit
  /\ nm = NmInit
  /\ isRunning = TRUE
  /\ br = BrInit
  /\ be = BeInit
  /\ tx = TxInit
  /\ tg = TgInit

NextOrder ==
  \/ Boot \/ Verify \/ ReconcileBegin
  \/ WorkspaceCreate
  \/ ProjectBegin \/ ProjectSpaceCreate \/ ProjectSpaceLink
  \/ ProjectSpaceInvites \/ LobbyCreate \/ LobbyLink \/ LobbyInvites
  \/ EnsureWorkVolume \/ EnsureMainSpark \/ EnsureRepoInMainSpark \/ RunBootstrap
  \/ ReconcileSave \/ InitialSync
  \/ PostEvent
  \/ LoopSync \/ HandleSyncReturns \/ IgnoreEvent \/ DropDuplicate \/ SpawnTask
  \/ CreateTaskRoom \/ LinkTaskRoom \/ SendStatusNotice \/ SendPromptNotice
  \/ CreateTaskSparkFork \/ LaunchBridgeInSpark \/ SendTaskCreated \/ SaveSpawned
  \/ Finally \/ SettleFailureNotice \/ SettleLeaveAndForget

SpecOrder == InitOrder /\ [][NextOrder]_vars


\* Index in the configuration of the project whose lobby is roomId.
ProjectIndex(roomId) ==
  CHOOSE i \in DOMAIN config.projects :
    /\ config.projects[i] \in DOMAIN state.projects
    /\ state.projects[config.projects[i]].lobbyRoomId = roomId

\* Timeline positions of the batch being handled that lie in a lobby.
BatchPositions ==
  { i \in (hs.since + 1)..hs.next_batch : world.timeline[i].roomId \in getLobbyRoomIds }

\* The batch in configured project order, each room in timeline order.
ExpectedOrder ==
  LET before(a, b) ==
        \/ ProjectIndex(world.timeline[a].roomId) < ProjectIndex(world.timeline[b].roomId)
        \/ /\ ProjectIndex(world.timeline[a].roomId) = ProjectIndex(world.timeline[b].roomId)
           /\ a < b
      positions == SortSeq(CHOOSE q \in [1..Cardinality(BatchPositions) -> BatchPositions] :
                             \A x \in BatchPositions : \E k \in DOMAIN q : q[k] = x,
                           before)
  IN  [k \in DOMAIN positions |->
         [ project |-> config.projects[ProjectIndex(world.timeline[positions[k]].roomId)],
           roomId |-> world.timeline[positions[k]].roomId,
           event |-> world.timeline[positions[k]].event ]]

\* The events still to handle are the tail of the batch in the expected order.
QueueInOrder ==
  pc \notin {"down", "loop", "stopped"} /\ hs.next_batch # NoToken =>
    \E k \in 0..Len(ExpectedOrder) :
      hs.queue = SubSeq(ExpectedOrder, k + 1, Len(ExpectedOrder))

\* A step that starts the pipeline of a lobby event.
PipelineStarts == inFlightEvents' \ inFlightEvents # {}

\* C29: handleSync visits the lobbies in configured project order and each
\* lobby's events in timeline order, one event at a time: the sync hands
\* over the whole batch in that order, events leave the queue from the
\* front (until handleSync returns or throws), at most one event is in
\* flight, none is in flight between two
\* events, and a pipeline starts only when every pipeline started before
\* in this run has ended with a save.
C29_OneEventAtATimeInOrder ==
  /\ [](QueueInOrder)
  /\ [](Cardinality(inFlightEvents) <= 1)
  /\ [](pc \in {"loop", "handleSync"} => inFlightEvents = {})
  /\ [][pc = "loop" /\ pc' = "handleSync" => Len(hs'.queue) = Cardinality(BatchPositions')]_vars
  /\ [][hs'.queue # hs.queue /\ pc \notin {"loop", "down"} /\ pc' \notin {"loop", "down"} =>
          hs'.queue = Tail(hs.queue)]_vars
  /\ [][PipelineStarts =>
          /\ inFlightEvents = {}
          /\ pc = "handleSync"
          /\ \A key \in DOMAIN hist.spawned : Last(hist.ops[key])[1] = "save"]_vars

\* One batch held an event of the second project's lobby followed by one of
\* the first project's lobby; the first project's event was handled to the
\* end, and the pipeline of the second project's event is now running.
C29_Witness ==
  /\ Len(config.projects) = 2
  /\ hs.since = 0 /\ hs.next_batch = 2
  /\ ProjectIndex(world.timeline[1].roomId) = 2
  /\ ProjectIndex(world.timeline[2].roomId) = 1
  /\ KeyAt(2) \in DOMAIN hist.spawned
  /\ Len(hs.queue) = 1
  /\ inFlightEvents = {IndexKey(KeyAt(1))}
  /\ pc = "t_fork"


(***************************************************************************)
(* The bridge environment of one task (SpecEnv).                           *)
(***************************************************************************)

OPENAI_API_KEY == <<"O", "P", "E", "N", "A", "I", "_", "A", "P", "I", "_", "K", "E", "Y">>
LOG_LEVEL == <<"L", "O", "G", "_", "L", "E", "V", "E", "L">>
CODEX_MODEL == <<"C", "O", "D", "E", "X", "_", "M", "O", "D", "E", "L">>
CODEX_ == <<"C", "O", "D", "E", "X", "_">>
MATRIX_HOMESERVER_URL ==
  <<"M", "A", "T", "R", "I", "X", "_", "H", "O", "M", "E", "S", "E", "R", "V", "E", "R",
    "_", "U", "R", "L">>
MATRIX_ACCESS_TOKEN ==
  <<"M", "A", "T", "R", "I", "X", "_", "A", "C", "C", "E", "S", "S", "_", "T", "O", "K",
    "E", "N">>
MATRIX_BOT_USER == <<"M", "A", "T", "R", "I", "X", "_", "B", "O", "T", "_", "U", "S", "E", "R">>
MATRIX_ROOM_ID == <<"M", "A", "T", "R", "I", "X", "_", "R", "O", "O", "M", "_", "I", "D">>
PROJECT_KEY == <<"P", "R", "O", "J", "E", "C", "T", "_", "K", "E", "Y">>
SPARK_PROJECT == <<"S", "P", "A", "R", "K", "_", "P", "R", "O", "J", "E", "C", "T">>
SPARK_NAME == <<"S", "P", "A", "R", "K", "_", "N", "A", "M", "E">>
INITIAL_PROMPT ==
  <<"I", "N", "I", "T", "I", "A", "L", "_", "P", "R", "O", "M", "P", "T">>

MaxEnvVars == 2     \* variables in the process environment

\* Names a process environment may hold: the passed ones, near misses of
\* them, and two of the fixed names.
EnvNames ==
  { OPENAI_API_KEY, LOG_LEVEL, CODEX_MODEL, CODEX_,
    <<"C", "O", "D", "E", "X">>, <<"c", "o", "d", "e", "x", "_", "x">>,
    <<"X", "C", "O", "D", "E", "X", "_">>, <<"P", "A", "T", "H">>,
    MATRIX_ROOM_ID, INITIAL_PROMPT }

\* Values of the process environment; "" is a variable set to nothing.
EnvValues == {"", "from-process"}

startsWith(text, prefix) ==
  Len(text) >= Len(prefix) /\ SubSeq(text, 1, Len(prefix)) = prefix

\* Variant: every variable of the process that has a value is copied.
passThroughAll(processEnv) ==
  [key \in {k \in DOMAIN processEnv : processEnv[k] # ""} |-> processEnv[key]]

\* buildBridgeEnv, lines 366-374: the variables of the process that are copied.
passThrough(processEnv) ==
  [key \in {k \in DOMAIN processEnv :
              /\ processEnv[k] # ""
              /\ \/ k = OPENAI_API_KEY
                 \/ k = LOG_LEVEL
                 \/ startsWith(k, CODEX_)} |-> processEnv[key]]

\* buildBridgeEnv, lines 376-386: the fixed keys are spread over the copies.
buildBridgeEnv(processEnv, projectKey, sparkProject, sparkName, roomId, initialPrompt) ==
  (MATRIX_HOMESERVER_URL :> "config.homeserverUrl")
  @@ (MATRIX_ACCESS_TOKEN :> "config.botAccessToken")
  @@ (MATRIX_BOT_USER :> botUserId)
  @@ (MATRIX_ROOM_ID :> roomId)
  @@ (PROJECT_KEY :> projectKey)
  @@ (SPARK_PROJECT :> sparkProject)
  @@ (SPARK_NAME :> sparkName)
  @@ (INITIAL_PROMPT :> Join(initialPrompt))
  @@ passThrough(processEnv)

\* The process environment is fixed when the process starts; one lobby
\* event is then taken through the pipeline.
InitEnv ==
  /\ config \in [ projects : {<<ProjectKeys[1]>>}, keepErrorRooms : {FALSE},
                  entry : {"orchestrator"} ]
  /\ pc = "down"
  /\ state = createDefaultState
  /\ disk = NoFile
  /\ temp = NoFile
  /\ sv = SvInit
  /\ sinceToken = NoToken
  /\ inFlightEvents = {}
  /\ rl = RlInit
  /\ hs = HsInit
  /\ pending = {}
  /\ world = [ nextRoom |-> 1, clock |-> 0, lobbies |-> {}, timeline |-> <<>>,
               notices |-> {}, left |-> {} ]
  /\ hist = HistInit
  /\ budget = [faults |-> 0, runs |-> 0, posts |-> 0]
  /\ rq = RqInit
  /\ nm = NmInit
  /\ isRunning = TRUE
  /\ br = BrInit
  /\ \E names \in SUBSET EnvNames :
       /\ Cardinality(names) <= MaxEnvVars
       /\ \E processEnv \in [names -> EnvValues] :
            be = [BeInit EXCEPT !.processEnv = processEnv]
  /\ tx = TxInit
  /\ tg = TgInit

\* toLobbyMessage for a delivered event: it is accepted or ignored.
EnvAccept ==
  /\ be.pc = "start"
  /\ \E event \in Events, n \in 4..5 :
       LET message == toLobbyMessage(RoomId(3), event)
       IN  be' = IF message = NoMessage
                   THEN [be EXCEPT !.pc = "ignored", !.event = event]
                   ELSE [be EXCEPT !.pc = "t_room", !.event = event, !.message = message,
                                   !.nextRoom = n]
  /\ UNCHANGED <<tg, tx, br, isRunning, nm, rq, config, pc, state, disk, temp, sv, sinceToken,
                 inFlightEvents, rl, hs, pending, world, hist, budget>>

\* spawnTaskForLobbyMessage, lines 195-203: createRoom returns the task room.
EnvCreateRoom ==
  /\ be.pc = "t_room"
  /\ be' = [be EXCEPT !.pc = "t_launch", !.taskRoomId = RoomId(be.nextRoom)]
  /\ UNCHANGED <<tg, tx, br, isRunning, nm, rq, config, pc, state, disk, temp, sv, sinceToken,
                 inFlightEvents, rl, hs, pending, world, hist, budget>>

\* spawnTaskForLobbyMessage, lines 242-249: the environment is built and
\* passed to launchBridgeInSpark.
EnvLaunch ==
  /\ be.pc = "t_launch"
  /\ LET ids == buildTaskIdentifiers(ProjectKeys[1], be.message.body, be.message.eventId, Now(0))
     IN  be' = [be EXCEPT !.pc = "launched",
                          !.sparkName = ids.sparkName,
                          !.env = buildBridgeEnv(be.processEnv, ProjectKeys[1],
                                                 "spark-" \o ProjectKeys[1], ids.sparkName,
                                                 be.taskRoomId, be.message.body)]
  /\ UNCHANGED <<tg, tx, br, isRunning, nm, rq, config, pc, state, disk, temp, sv, sinceToken,
                 inFlightEvents, rl, hs, pending, world, hist, budget>>

NextEnv == EnvAccept \/ EnvCreateRoom \/ EnvLaunch

SpecEnv == InitEnv /\ [][NextEnv]_vars

FixedKeys ==
  { MATRIX_HOMESERVER_URL, MATRIX_ACCESS_TOKEN, MATRIX_BOT_USER, MATRIX_ROOM_ID,
    PROJECT_KEY, SPARK_PROJECT, SPARK_NAME, INITIAL_PROMPT }

\* The names of EnvNames that the bridge may inherit.
Inherited == {OPENAI_API_KEY, LOG_LEVEL, CODEX_MODEL, CODEX_}

\* C31: the environment passed to launchBridgeInSpark holds the eight fixed
\* keys and, besides them, only OPENAI_API_KEY, LOG_LEVEL and CODEX_* names
\* with the values the process has for them; the fixed keys carry the values
\* of the configuration and of the task whatever the process environment
\* holds: INITIAL_PROMPT is the trimmed body of the lobby event and
\* MATRIX_ROOM_ID is the room createRoom returned.
C31_BridgeEnvContents ==
  be.pc = "launched" =>
    /\ FixedKeys \subseteq DOMAIN be.env
    /\ \A key \in DOMAIN be.env \ FixedKeys :
         /\ key \in Inherited
         /\ key \in DOMAIN be.processEnv
         /\ be.env[key] = be.processEnv[key]
    /\ be.env[INITIAL_PROMPT] = Join(trim(be.event.body.text))
    /\ be.env[MATRIX_ROOM_ID] = RoomId(be.nextRoom)
    /\ be.env[MATRIX_HOMESERVER_URL] = "config.homeserverUrl"
    /\ be.env[MATRIX_ACCESS_TOKEN] = "config.botAccessToken"
    /\ be.env[MATRIX_BOT_USER] = botUserId
    /\ be.env[PROJECT_KEY] = ProjectKeys[1]
    /\ be.env[SPARK_NAME] = be.sparkName

\* The process has its own MATRIX_ROOM_ID and a CODEX_ variable: the bridge
\* gets the CODEX_ variable and the task's room.
C31_Witness ==
  /\ be.pc = "launched"
  /\ DOMAIN be.processEnv = {MATRIX_ROOM_ID, CODEX_MODEL}
  /\ be.processEnv[MATRIX_ROOM_ID] = "from-process"
  /\ be.processEnv[CODEX_MODEL] = "from-process"
  /\ DOMAIN be.env = FixedKeys \cup {CODEX_MODEL}
  /\ be.event.body.text = <<" ", "f", "i", "x", " ">>


(***************************************************************************)
(* sendMessage / sendNotice calls of one MatrixClient (SpecSend).          *)
(***************************************************************************)

MaxSends == 2       \* sendMessage calls of the client

\* Variant: the transaction ID is made of the time only.
nextTxnIdTimeOnly(t) ==
  [ txnCounter |-> t.txnCounter + 1,
    txnId |-> <<"m", "x", "-">> \o numberToString(t.now) ]

\* nextTxnId, lines 391-394: `mx-${Date.now()}-${this.txnCounter}` after the increment.
nextTxnId(t) ==
  [ txnCounter |-> t.txnCounter + 1,
    txnId |-> <<"m", "x", "-">> \o numberToString(t.now) \o <<"-">>
                \o numberToString(t.txnCounter + 1) ]

\* sendMessage, lines 254-271: the transaction ID is taken once and put in
\* the endpoint; request then starts its first attempt.
SendMessageBegin ==
  /\ Len(tx.calls) < MaxSends
  /\ LET next == nextTxnId(tx)
     IN  tx' = [tx EXCEPT !.txnCounter = next.txnCounter,
                          !.calls = Append(@, [ counter |-> next.txnCounter,
                                                txnId |-> next.txnId,
                                                endpoint |-> next.txnId,
                                                attempt |-> 1, status |-> "fetch",
                                                sent |-> <<>> ])]
  /\ UNCHANGED <<tg, be, br, isRunning, nm, rq, config, pc, state, disk, temp, sv, sinceToken,
                 inFlightEvents, rl, hs, pending, world, hist, budget>>

\* request, lines 346-386: one attempt of a call with the endpoint built
\* before the loop; 429 before the last attempt sleeps, any other failure throws.
SendFetch ==
  \E i \in DOMAIN tx.calls :
    /\ tx.calls[i].status = "fetch"
    /\ \E status \in {200, 429, 500} :
         tx' = [tx EXCEPT !.calls[i].sent = Append(@, tx.calls[i].endpoint),
                          !.calls[i].status =
                             IF status = 200 THEN "returned"
                             ELSE IF status = 429 /\ tx.calls[i].attempt < maxAttempts
                               THEN "sleep"
                             ELSE "thrown"]
    /\ UNCHANGED <<tg, be, br, isRunning, nm, rq, config, pc, state, disk, temp, sv, sinceToken,
                   inFlightEvents, rl, hs, pending, world, hist, budget>>

\* request, lines 380-382: the sleep ends and the next attempt starts.
SendSleep ==
  \E i \in DOMAIN tx.calls :
    /\ tx.calls[i].status = "sleep"
    /\ tx' = [tx EXCEPT !.calls[i].attempt = @ + 1, !.calls[i].status = "fetch"]
    /\ UNCHANGED <<tg, be, br, isRunning, nm, rq, config, pc, state, disk, temp, sv, sinceToken,
                   inFlightEvents, rl, hs, pending, world, hist, budget>>

\* Date.now() advances.
SendTick ==
  /\ tx.now < MaxClock
  /\ tx' = [tx EXCEPT !.now = @ + 1]
  /\ UNCHANGED <<tg, be, br, isRunning, nm, rq, config, pc, state, disk, temp, sv, sinceToken,
                 inFlightEvents, rl, hs, pending, world, hist, budget>>

NextSend == SendMessageBegin \/ SendFetch \/ SendSleep \/ SendTick

SpecSend == Init /\ [][NextSend]_vars

\* C32: of two sendMessage calls of the client the later one has the
\* greater counter and a different transaction ID, and every attempt of a
\* call is sent with the transaction ID of that call.
C32_TxnIdsIncreaseAndAreReused ==
  /\ \A i, j \in DOMAIN tx.calls :
       i < j => /\ tx.calls[i].counter < tx.calls[j].counter
                /\ tx.calls[i].txnId # tx.calls[j].txnId
  /\ \A i \in DOMAIN tx.calls :
       /\ Len(tx.calls[i].sent) <= maxAttempts
       /\ \A k \in DOMAIN tx.calls[i].sent : tx.calls[i].sent[k] = tx.calls[i].txnId

\* Two calls started in the same millisecond; the first was retried while
\* the second was in flight, and both returned.
C32_Witness ==
  /\ Len(tx.calls) = 2
  /\ tx.now = 0
  /\ Len(tx.calls[1].sent) = 3
  /\ Len(tx.calls[2].sent) = 2
  /\ tx.calls[1].status = "returned"
  /\ tx.calls[2].status = "returned"


(***************************************************************************)
(* A failing reconcile step ends the run (SpecOrder).                      *)
(***************************************************************************)
\* Positions of initialize, before the first long-poll sync.
InitializeSteps ==
  {"down", "verify", "reconcile", "ws_join", "ws_invites", "p_begin", "p_space_join",
   "p_space_link", "p_space_invites", "p_lobby_join", "p_lobby_link", "p_lobby_invites",
   "init_sync", "done"} \cup SparkSteps \cup CreateSteps

\* The calls of a reconcile pass of this run that completed.
ReconcileCompleted ==
  /\ hist.rec.calls # <<>>
  /\ Last(hist.rec.calls) = <<"save", "state">>
  /\ \A i \in DOMAIN config.projects :
       /\ \A op \in {"ensureWorkVolume", "ensureMainSpark", "ensureRepoInMainSpark",
                     "runBootstrap"} :
            CallsOf(op, Slot("spark", config.projects[i])) = 1
       /\ IdOf(Ids(state), "space", config.projects[i]) # None
       /\ IdOf(Ids(state), "lobby", config.projects[i]) # None
  /\ state.workspace.spaceId # None

\* C34: a throwing ensureWorkVolume, ensureMainSpark, ensureRepoInMainSpark,
\* runBootstrap, createSpace or createRoom of reconcile ends the run at once,
\* with no sync token taken and no event queued; a run that syncs or handles
\* a lobby event has completed reconcile with every step successful.
C34_FailedReconcileNeverSyncs ==
  /\ [](pc \notin InitializeSteps => ReconcileCompleted)
  /\ [][ (pc \in SparkSteps \cup CreateSteps /\ Throws)
         => /\ pc' = "down"
            /\ sinceToken' = NoToken
            /\ hs' = HsInit
            /\ disk' = disk
            /\ hist.startToken' = NoToken ]_vars

\* The only run ended in reconcile after the five rooms of the two projects
\* were created: nothing was saved and no event of the lobby was taken.
C34_Witness ==
  /\ pc = "down"
  /\ budget.faults = 1
  /\ budget.runs = MaxRuns
  /\ world.nextRoom = 6
  /\ ~disk.exists
  /\ hist.ops = <<>>


(***************************************************************************)
(* Errors of the pipeline stay inside handleLobbyMessage (Spec).           *)
(***************************************************************************)
\* Positions of the chat and spark calls of spawnTaskForLobbyMessage.
PipelineCallSteps ==
  {"t_room", "t_link", "t_notice1", "t_notice2", "t_fork", "t_launch", "t_created"}

\* A chat or spark call made for the event threw.
ChatOrSparkFailed(key) ==
  \E i \in DOMAIN OpsOf(key) : OpsOf(key)[i][2] = "throws" /\ OpsOf(key)[i][1] # "save"

\* C35: a chat or spark call of the pipeline that throws is caught inside
\* handleLobbyMessage: the batch and the token are as they were and the
\* finally follows; when the save of the finally returns, handleSync goes on
\* with the remaining events of the same batch; when none is left handleSync
\* returns and the token becomes the batch's next_batch, so that back in the
\* loop the token is past every event that failed that way.
C35_PipelineErrorsAreCaught ==
  /\ [][ (pc \in PipelineCallSteps /\ Throws)
         => /\ pc' = "finally"
            /\ hs' = hs
            /\ sinceToken' = sinceToken ]_vars
  /\ [][ (pc = "finally" /\ ~Throws /\ pc' # "down")
         => /\ pc' = "handleSync"
            /\ hs'.queue = Tail(hs.queue)
            /\ hs'.next_batch = hs.next_batch ]_vars
  /\ [][ (pc = "handleSync" /\ hs.queue = <<>> /\ pc' # "down")
         => (pc' = "loop" /\ sinceToken' = hs.next_batch) ]_vars
  /\ [](\A key \in hist.failed :
          (pc = "loop" /\ ~hist.saveThrew /\ ChatOrSparkFailed(key)) =>
             \E i \in DOMAIN world.timeline : KeyAt(i) = key /\ sinceToken >= i)

\* A batch of two events: a chat or spark call failed for the first one, the
\* second one was spawned and launched, and the token is past both.
C35_Witness ==
  /\ pc = "loop"
  /\ Len(world.timeline) = 2
  /\ sinceToken = 2
  /\ hist.startToken = 0
  /\ KeyAt(1) \in hist.failed
  /\ ChatOrSparkFailed(KeyAt(1))
  /\ KeyAt(2) \in DOMAIN hist.spawned
  /\ KeyAt(2) \notin hist.failed
  /\ <<"launchBridgeInSpark", "ok">> \in Range(OpsOf(KeyAt(2)))


(***************************************************************************)
(* The state handleLobbyMessage leaves behind (Spec).                      *)
(***************************************************************************)
\* The event is indexed to a task that is active or error, in memory.
Resolved(s, dedupeKey) ==
  /\ dedupeKey \in DOMAIN s.eventIndex
  /\ s.eventIndex[dedupeKey] \in DOMAIN s.tasks
  /\ s.tasks[s.eventIndex[dedupeKey]].status \in {"active", "error"}

\* C37: when handleLobbyMessage leaves its finally for an event it spawned
\* for, by returning or by the save throwing, the event is indexed, its task
\* is active or error and the event is no longer in flight; between two
\* events of a batch and between two batches nothing is in flight and every
\* event the run spawned for is resolved.
C37_HandledEventIsResolved ==
  /\ [][ (pc = "finally" /\ pc' \in {"handleSync", "loop"})
         => /\ Resolved(state', CurDedupeKey)
            /\ CurDedupeKey \notin inFlightEvents' ]_vars
  /\ [](pc \in {"handleSync", "loop"} =>
          /\ inFlightEvents = {}
          /\ \A key \in DOMAIN hist.spawned : Resolved(state, IndexKey(key)))

\* The save of the finally threw after the bridge was launched: back in the
\* loop the task is active in memory and nothing is in flight.
C37_Witness ==
  /\ pc = "loop"
  /\ hist.lastSave = "throws"
  /\ inFlightEvents = {}
  /\ \E key \in DOMAIN hist.spawned :
       /\ Resolved(state, IndexKey(key))
       /\ state.tasks[state.eventIndex[IndexKey(key)]].status = "active"


(***************************************************************************)
(* Crash and restart of the orchestrator (SpecCrash).                      *)
(***************************************************************************)
\* The steps of the orchestrator process over several runs, SpawnTask apart.
ProgramRestarted ==
  \/ Boot \/ Verify \/ ReconcileBegin
  \/ WorkspaceJoin \/ WorkspaceInvites \/ WorkspaceCreate
  \/ ProjectBegin \/ ProjectSpaceJoin \/ ProjectSpaceCreate \/ ProjectSpaceLink
  \/ ProjectSpaceInvites \/ LobbyJoin \/ LobbyCreate \/ LobbyLink \/ LobbyInvites
  \/ EnsureWorkVolume \/ EnsureMainSpark \/ EnsureRepoInMainSpark \/ RunBootstrap
  \/ ReconcileSave \/ InitialSync
  \/ LoopSync \/ HandleSyncReturns \/ IgnoreEvent \/ DropDuplicate
  \/ CreateTaskRoom \/ LinkTaskRoom \/ SendStatusNotice \/ SendPromptNotice
  \/ CreateTaskSparkFork \/ LaunchBridgeInSpark \/ SendTaskCreated \/ SaveSpawned
  \/ Finally \/ SettleFailureNotice \/ SettleLeaveAndForget

NextCrash == ProgramRestarted \/ SpawnTask \/ PostEvent \/ Crash

\* The process may be killed once and is started again; one event fewer than
\* MaxPosts is delivered.
InitCrash ==
  /\ config \in [ projects : {<<ProjectKeys[1]>>}, keepErrorRooms : {FALSE},
                  entry : {"orchestrator"} ]
  /\ pc = "down"
  /\ state = createDefaultState
  /\ disk = NoFile
  /\ temp = NoFile
  /\ sv = SvInit
  /\ sinceToken = NoToken
  /\ inFlightEvents = {}
  /\ rl = RlInit
  /\ hs = HsInit
  /\ pending = {}
  /\ world = [ nextRoom |-> 1, clock |-> MaxClock, lobbies |-> {}, timeline |-> <<>>,
               notices |-> {}, left |-> {} ]
  /\ hist = HistInit
  /\ budget = [faults |-> 0, runs |-> 0, posts |-> MaxPosts - 1]
  /\ rq = RqInit
  /\ nm = NmInit
  /\ isRunning = TRUE
  /\ br = BrInit
  /\ be = BeInit
  /\ tx = TxInit
  /\ tg = TgInit

\* Every call the process awaits returns and a process that ended is started
\* again while MaxRuns allows (the fairness of SpawnTask is written with its
\* guard); a kill may happen or not.
SpecCrash ==
  /\ InitCrash /\ [][NextCrash]_vars
  /\ WF_vars(ProgramRestarted)
  /\ ([]<>(~ SpawnTaskReady) \/ []<><<SpawnTask>>_vars)

\* The state the orchestrator has: in memory while it runs, the file's while
\* it is down.
Durable == IF pc = "down" THEN load(disk) ELSE state

AnyWaiting == \E id \in DOMAIN Durable.tasks : Durable.tasks[id].status = "waiting"

\* The process ended and is not started again.
Halted == pc = "down" /\ budget.runs = MaxRuns

\* C38: a task that is waiting is eventually active or error, also when the
\* process is killed during the pipeline and started again (a process that
\* is not started again resolves nothing).
C38_WaitingTasksResolve == AnyWaiting ~> (~AnyWaiting \/ Halted)

\* Without a kill a waiting task is resolved by the pipeline that inserted it.
WaitingResolvedWithoutCrash == AnyWaiting ~> ~AnyWaiting \/ pc = "stopped"


(***************************************************************************)
(* Outcome notices in the lobby (Spec).                                    *)
(***************************************************************************)
\* C39: the lobby never holds both "Task created." and "Task creation
\* failed." for the same event.
C39_AtMostOneOutcomeNotice ==
  \A created, failed \in world.notices :
    ~ ( /\ created.text = "Task created."
        /\ failed.text = "Task creation failed."
        /\ created.roomId = failed.roomId
        /\ created.eventId = failed.eventId )


(***************************************************************************)
(* The Telegram bot: prompts of one chat (SpecTelegram).                   *)
(***************************************************************************)
\* startOrReplaceRun, lines 453-456: runPrompt is called and its promise
\* becomes the chat's activeRun, in one synchronous stretch.
TgStartRun(t, p) ==
  [t EXCEPT !.runs[p] = "running", !.activeRun = p, !.call[p].pc = "await_run"]

\* A text or /run handler calls triggerRun for the next prompt of the chat:
\* startOrReplaceRun runs up to its first await (lines 440-446 or 453-458).
TriggerRun ==
  \E p \in 1..MaxPrompts :
    /\ tg.call[p].pc = "new"
    /\ \A q \in 1..(p - 1) : tg.call[q].pc # "new"
    /\ tg' = IF tg.activeRun # NoRun
             THEN [tg EXCEPT !.aborted = @ \cup {tg.activeRun},
                             !.call[p] = [pc |-> "await_previous", previous |-> tg.activeRun]]
             ELSE TgStartRun(tg, p)
    /\ UNCHANGED <<tx, be, br, isRunning, nm, rq, config, pc, state, disk, temp, sv, sinceToken,
                   inFlightEvents, rl, hs, pending, world, hist, budget>>

\* /stop, lines 219-230: the active run's controller is aborted.
TgStop ==
  /\ tg.activeRun # NoRun
  /\ tg.activeRun \notin tg.aborted
  /\ tg' = [tg EXCEPT !.aborted = @ \cup {tg.activeRun}]
  /\ UNCHANGED <<tx, be, br, isRunning, nm, rq, config, pc, state, disk, temp, sv, sinceToken,
                 inFlightEvents, rl, hs, pending, world, hist, budget>>

\* runPrompt settles (the turn ended, failed or was interrupted) and the
\* calls awaiting its promise resume in the order they awaited it, before any
\* other handler runs: the call that started the run (lines 458-465) clears
\* activeRun if it is still its own; each call that was replacing the run
\* (lines 445-450) sends its reply.
TgRunPromptEnds ==
  \E r \in 1..MaxPrompts :
    /\ tg.runs[r] = "running"
    /\ tg' = [tg EXCEPT
                !.runs[r] = "done",
                !.activeRun = IF @ = r THEN NoRun ELSE @,
                !.call = [p \in 1..MaxPrompts |->
                           IF p = r THEN [@[p] EXCEPT !.pc = "returned"]
                           ELSE IF @[p].pc = "await_previous" /\ @[p].previous = r
                             THEN [@[p] EXCEPT !.pc = "await_reply"]
                           ELSE @[p]]]
    /\ UNCHANGED <<tx, be, br, isRunning, nm, rq, config, pc, state, disk, temp, sv, sinceToken,
                   inFlightEvents, rl, hs, pending, world, hist, budget>>

\* startOrReplaceRun, lines 450-456: the reply returned and the new run
\* starts, or the reply failed and triggerRun logs "Run failed.".
TgReplied ==
  \E p \in 1..MaxPrompts :
    /\ tg.call[p].pc = "await_reply"
    /\ \/ tg' = TgStartRun(tg, p)
       \/ tg' = [tg EXCEPT !.call[p].pc = "failed"]
    /\ UNCHANGED <<tx, be, br, isRunning, nm, rq, config, pc, state, disk, temp, sv, sinceToken,
                   inFlightEvents, rl, hs, pending, world, hist, budget>>

NextTelegram == TriggerRun \/ TgStop \/ TgRunPromptEnds \/ TgReplied

SpecTelegram == Init /\ [][NextTelegram]_vars

Executing == {r \in 1..MaxPrompts : tg.runs[r] = "running"}

\* C40: at most one runPrompt is executing for the chat.
C40_AtMostOneRunPerChat == Cardinality(Executing) <= 1

\* A run is replaced only after it has settled.
TgReplacedRunHasSettled ==
  \A p \in 1..MaxPrompts :
    (tg.call[p].pc \in {"await_reply", "await_run", "returned", "failed"}
       /\ tg.call[p].previous # NoRun) => tg.runs[tg.call[p].previous] = "done"

====
